---- MODULE Spec2Model ----
(***************************************************************************)
(* NiemaFS: the random-access read primitive of FileSystem (common.py) and *)
(* the ISO 9660 decoder IsoFS (iso.py), modelled at byte level.            *)
(*                                                                         *)
(* The byte source is a Python file object: a byte string `file` and a     *)
(* cursor `pos`.  seek(n) sets the cursor (n < 0 raises), read(n) returns  *)
(* file[pos:pos+n] (to the end when n < 0) and advances the cursor by the  *)
(* number of bytes returned, tell() returns the cursor.                    *)
(*                                                                         *)
(* The byte string `file` is held as its length and its non-zero bytes    *)
(* (a function from 0-based offsets): every other byte is zero.           *)
(*                                                                         *)
(* A byte string read from the file is held as the span [off, len] of the  *)
(* file it was read from: the file is never written, so the span denotes  *)
(* exactly the bytes file[off:off+len], which Bytes(span) spells out.      *)
(*                                                                         *)
(* Python's None is the empty tuple <<>>, a present value v is <<v>>.      *)
(* An exception is the name of its class in an `err` field ("" = none).    *)
(***************************************************************************)
EXTENDS Integers, Sequences, FiniteSets, TLC

VARIABLES
    img,                \* which of the input images self.file is opened on
    file,               \* the bytes of self.file
    pos,                \* self.file's cursor (file.tell())
    sector_size,        \* IsoFS.sector_size: None or the cached sector size
    system_area,        \* IsoFS.system_area: None or the cached bytes
    volume_descriptors, \* IsoFS.volume_descriptors: type code -> sector bytes
    gens,               \* the generator objects made by IsoFS.__iter__
    last,               \* outcome of the direct call made in the last step, if any
    loads,              \* the cached entities the last step read from self.file
    gcm                 \* the GcmFS instance made on self.file, if any

vars == <<img, file, pos, sector_size, system_area, volume_descriptors, gens, last,
          loads, gcm>>

-----------------------------------------------------------------------------
(* Bounds of the model *)

\* generator objects created on the one decoder instance
MaxIters == 2

\* entries a client pulls from one generator
MaxYields == 7

-----------------------------------------------------------------------------
(* Python values *)

None == <<>>
Some(v) == <<v>>
IsNone(x) == x = <<>>
Val(x) == x[1]

Min2(a, b) == IF a <= b THEN a ELSE b
Max2(a, b) == IF a >= b THEN a ELSE b
SetMin(S) == CHOOSE x \in S : \A y \in S : x <= y

\* s[a:b] for 0 <= a, 0 <= b (0-based, end exclusive, clamped to len(s))
PySlice(s, a, b) ==
    LET hi == Min2(b, Len(s))
    IN  IF a >= hi THEN <<>> ELSE SubSeq(s, a + 1, hi)


\* s[i] with 0-based i; the caller guards i < len(s) (IndexError otherwise)
At(s, i) == s[i + 1]

\* struct.unpack on exactly 4 / 2 bytes
UnpackLE32(b) == b[1] + 256 * b[2] + 65536 * b[3] + 16777216 * b[4]
UnpackBE32(b) == b[4] + 256 * b[3] + 65536 * b[2] + 16777216 * b[1]
UnpackLE16(b) == b[1] + 256 * b[2]
UnpackBE16(b) == b[2] + 256 * b[1]

-----------------------------------------------------------------------------
(* Program constants *)

\* ISO9660_PVD_MAGIC_WORD = b'CD001'
ISO9660_PVD_MAGIC_WORD == <<67, 68, 48, 48, 49>>
MAGIC_WORD_SEARCH_SIZE == 50000

-----------------------------------------------------------------------------
(* Input images.  An image is described by its sector size, its length, the *)
(* type codes of its volume descriptors (one per sector from sector 16),    *)
(* its directory extents and its file extents; BuildImage lays the          *)
(* description out byte by byte in the layout parse_directory_record and    *)
(* parse_primary_volume_descriptor read back.                               *)

\* sector size of the generated images (a PVD is parsed up to byte 882)
ImgSector == 900

LE32(n) == <<n % 256, (n \div 256) % 256, (n \div 65536) % 256, (n \div 16777216) % 256>>
BE32(n) == <<(n \div 16777216) % 256, (n \div 65536) % 256, (n \div 256) % 256, n % 256>>
LE16(n) == <<n % 256, (n \div 256) % 256>>
BE16(n) == <<(n \div 256) % 256, n % 256>>

Zeros(n) == [i \in 1..n |-> 0]

\* recording date and time 2000-01-02 03:04:05, offset byte 48 (UTC)
StampBytes == <<100, 1, 2, 3, 4, 5, 48>>

\* a child record of a directory: a file or a directory, at extent lba/len
FileRec(name, lba, len) ==
    [name |-> name, dir |-> FALSE, lba |-> lba, len |-> len,
     lbaBE |-> lba, lenBE |-> len, stamp |-> StampBytes]
DirRec(name, lba, len) ==
    [name |-> name, dir |-> TRUE, lba |-> lba, len |-> len,
     lbaBE |-> lba, lenBE |-> len, stamp |-> StampBytes]

\* the bytes of one directory record (padded to an even length)
EncodeRecord(r) ==
    LET n   == Len(r.name)
        pad == IF n % 2 = 0 THEN <<0>> ELSE <<>>
    IN  <<33 + n + Len(pad), 0>> \o LE32(r.lba) \o BE32(r.lbaBE)
        \o LE32(r.len) \o BE32(r.lenBE) \o r.stamp
        \o <<(IF r.dir THEN 2 ELSE 0), 0, 0>> \o LE16(1) \o BE16(1)
        \o <<n>> \o r.name \o pad

\* the records of a directory one after the other (at most five)
EncodeRecords(rs) ==
    LET rec(k) == IF k <= Len(rs) THEN EncodeRecord(rs[k]) ELSE <<>>
    IN  rec(1) \o rec(2) \o rec(3) \o rec(4) \o rec(5)

\* the data of a directory extent: '.', '..', the children, zero padding
EncodeDirectory(d) ==
    LET recs == (IF d.pseudo
                 THEN <<DirRec(<<0>>, d.lba, d.len), DirRec(<<1>>, d.parent, d.len)>>
                 ELSE <<>>) \o d.recs
        body == EncodeRecords(recs)
    IN  IF Len(body) >= d.len THEN PySlice(body, 0, d.len)
        ELSE body \o Zeros(d.len - Len(body))

\* a volume descriptor: type code, 'CD001', version 1; a type-1 descriptor
\* carries the 34-byte root directory record at offset 156
EncodeDescriptor(t, S, root) ==
    LET head == <<t>> \o ISO9660_PVD_MAGIC_WORD \o <<1>>
    IN  IF t = 1
        THEN head \o Zeros(156 - Len(head)) \o EncodeRecord(root)
             \o Zeros(S - 156 - Len(EncodeRecord(root)))
        ELSE head \o Zeros(S - Len(head))

ImagePieces(d) ==
    [k \in 1..Len(d.vds) |->
        [off |-> d.vdAt + (k - 1) * d.S,
         bytes |-> EncodeDescriptor(d.vds[k], d.S, d.root)]]
    \o [k \in 1..Len(d.dirs) |->
        [off |-> d.dirs[k].lba * d.S, bytes |-> EncodeDirectory(d.dirs[k])]]
    \o [k \in 1..Len(d.files) |->
        [off |-> d.files[k].lba * d.S, bytes |-> d.files[k].bytes]]
    \o d.extra

\* the pieces ps (which do not overlap) on zeros, n bytes long
Layout(n, ps) ==
    LET covering(i) == {k \in 1..Len(ps) :
                           ps[k].off <= i /\ i < ps[k].off + Len(ps[k].bytes)}
        byte(i) == LET k == CHOOSE k \in covering(i) : TRUE
                   IN  ps[k].bytes[i - ps[k].off + 1]
        covered == UNION {ps[k].off .. (ps[k].off + Len(ps[k].bytes) - 1) :
                             k \in 1..Len(ps)}
    IN  [len  |-> n,
         data |-> [i \in {j \in covered : j < n /\ byte(j) /= 0} |-> byte(i)]]

\* the image of the description d
BuildImage(d) == Layout(d.len, ImagePieces(d))

NameA == <<65, 59, 49>>       \* 'A;1'
NameB == <<66, 59, 49>>       \* 'B;1'
NameD == <<68>>               \* 'D'
NameE == <<69>>               \* 'E'
NameG == <<71>>               \* 'G'
NameL == <<76>>               \* 'L'

Dir(lba, parent, S, recs) ==
    [lba |-> lba, parent |-> parent, len |-> S, pseudo |-> TRUE, recs |-> recs]

\* root: A;1 (5 bytes), D/; D: G/; G: B;1 (3 bytes)
TreeDirs(S) ==
    << Dir(2, 2, S, <<FileRec(NameA, 8, 5), DirRec(NameD, 3, S)>>),
       Dir(3, 2, S, <<DirRec(NameG, 5, S)>>),
       Dir(5, 3, S, <<FileRec(NameB, 9, 3)>>) >>
TreeFiles == << [lba |-> 8, bytes |-> <<10, 11, 12, 13, 14>>],
                [lba |-> 9, bytes |-> <<20, 21, 22>>] >>

\* root: A;1 (5 bytes)
SmallDirs(S) == << Dir(2, 2, S, <<FileRec(NameA, 8, 5)>>) >>
SmallFiles == << [lba |-> 8, bytes |-> <<10, 11, 12, 13, 14>>] >>

\* root: E/ (empty), A;1 (5 bytes)
EmptyDirs(S) ==
    << Dir(2, 2, S, <<DirRec(NameE, 4, S), FileRec(NameA, 8, 5)>>),
       Dir(4, 2, S, <<>>) >>

\* a well-formed image: system area (holding the extents), PVD, terminator
DescTree ==
    [S |-> ImgSector, len |-> 18 * ImgSector, vdAt |-> 16 * ImgSector,
     vds |-> <<1, 255>>, root |-> DirRec(<<0>>, 2, ImgSector),
     dirs |-> TreeDirs(ImgSector), files |-> TreeFiles, extra |-> <<>>]

\* a boot record before the PVD and a descriptor after the terminator
DescChain ==
    [DescTree EXCEPT !.len = 20 * ImgSector, !.vds = <<0, 1, 255, 2>>,
                     !.dirs = EmptyDirs(ImgSector), !.files = SmallFiles]

\* no 'CD001' anywhere
DescNoMagic ==
    [S |-> ImgSector, len |-> 40, vdAt |-> 0, vds |-> <<>>,
     root |-> DirRec(<<0>>, 2, ImgSector), dirs |-> <<>>, files |-> <<>>,
     extra |-> <<[off |-> 3, bytes |-> <<67, 68, 48, 48, 50>>]>>]

\* 'CD001' starts inside the first 50,000 bytes and ends outside them
DescLateMagic ==
    [DescNoMagic EXCEPT !.len = MAGIC_WORD_SEARCH_SIZE + 10,
        !.extra = <<[off |-> MAGIC_WORD_SEARCH_SIZE - 4,
                     bytes |-> ISO9660_PVD_MAGIC_WORD]>>]

\* the image ends after the PVD: the chain has no type-255 descriptor
DescNoTerminator ==
    [DescChain EXCEPT !.len = 17 * ImgSector, !.vds = <<1>>]

\* the image ends in the middle of the sector after the PVD
DescCutChain ==
    [DescChain EXCEPT !.len = 17 * ImgSector + 7, !.vds = <<1, 2>>]

\* B;1 declares 3 bytes at sector 18, where the image has 1 byte left;
\* A;1 declares 5 bytes at sector 30, past the end of the image
DescShortFile ==
    [DescTree EXCEPT !.len = 18 * ImgSector + 1,
        !.dirs = << Dir(2, 2, ImgSector,
                        <<FileRec(NameB, 18, 3), FileRec(NameA, 30, 5)>>) >>,
        !.files = << >>,
        !.extra = << [off |-> 18 * ImgSector, bytes |-> <<20>>] >>]

\* a well-formed image whose system area holds the bytes 'CD001' (sector 6)
DescDecoy ==
    [DescChain EXCEPT !.len = 18 * ImgSector, !.vds = <<1, 255>>,
        !.dirs = SmallDirs(ImgSector),
        !.extra = << [off |-> 6 * ImgSector + 206,
                      bytes |-> ISO9660_PVD_MAGIC_WORD] >>]

\* the record L of the root directory points to the root directory's extent
DescLoop ==
    [DescTree EXCEPT
        !.dirs = << Dir(2, 2, ImgSector,
                        <<FileRec(NameA, 8, 5), DirRec(NameL, 2, ImgSector)>>) >>,
        !.files = SmallFiles]

\* root: D/, A;1, E/; E: B;1, A;1; D: G/; G: empty
DescOrder ==
    [DescTree EXCEPT
        !.dirs = << Dir(2, 2, ImgSector, <<DirRec(NameD, 3, ImgSector),
                                           FileRec(NameA, 8, 5),
                                           DirRec(NameE, 4, ImgSector)>>),
                    Dir(3, 2, ImgSector, <<DirRec(NameG, 5, ImgSector)>>),
                    Dir(4, 2, ImgSector, <<FileRec(NameB, 9, 3), FileRec(NameA, 8, 5)>>),
                    Dir(5, 3, ImgSector, <<>>) >>]

\* the big-endian copies of A;1 and of D differ from the little-endian ones:
\* they name the extent of B;1 (sector 9, 3 bytes) and sector 5
DescMismatch ==
    [DescTree EXCEPT
        !.dirs = << Dir(2, 2, ImgSector,
                        <<[FileRec(NameA, 8, 5) EXCEPT !.lbaBE = 9, !.lenBE = 3],
                          [DirRec(NameD, 3, ImgSector) EXCEPT !.lbaBE = 5, !.lenBE = 7]>>),
                    Dir(3, 2, ImgSector, <<FileRec(NameB, 9, 3)>>),
                    Dir(5, 2, ImgSector, <<FileRec(NameG, 8, 5)>>) >>]

\* sectors of 200 bytes: the PVD is shorter than the 883 bytes parsed
SmallSector == 200
DescSmallSector ==
    [S |-> SmallSector, len |-> 18 * SmallSector, vdAt |-> 16 * SmallSector,
     vds |-> <<1, 255>>, root |-> DirRec(<<0>>, 2, SmallSector),
     dirs |-> SmallDirs(SmallSector), files |-> SmallFiles, extra |-> <<>>]

\* the root directory holds a file recorded under the name 'X/B;1'
DescSlashName ==
    [DescTree EXCEPT
        !.dirs = << Dir(2, 2, ImgSector, <<FileRec(<<88, 47, 66, 59, 49>>, 8, 5)>>) >>,
        !.files = SmallFiles]

\* the root directory holds a directory recorded under the name 'D;1', which
\* holds the file A;1
DescVersionedDir ==
    [DescTree EXCEPT
        !.dirs = << Dir(2, 2, ImgSector, <<DirRec(<<68, 59, 49>>, 3, ImgSector)>>),
                    Dir(3, 2, ImgSector, <<FileRec(NameA, 8, 5)>>) >>,
        !.files = SmallFiles]

\* the records of the directory D ('.', '..' and B;1: 34 + 34 + 36 bytes) fill
\* its data length exactly: no zero byte follows them
DescFullDir ==
    [DescTree EXCEPT
        !.dirs = << Dir(2, 2, ImgSector, <<FileRec(NameA, 8, 5), DirRec(NameD, 3, 104)>>),
                    [Dir(3, 2, ImgSector, <<FileRec(NameB, 9, 3)>>) EXCEPT !.len = 104] >>]

\* the root directory has two sectors of data: '.', '..' and A;1 in the
\* first, which zeros fill up, and B;1 at the start of the second
DescTwoSectorDir ==
    [DescTree EXCEPT
        !.root = DirRec(<<0>>, 2, 2 * ImgSector),
        !.dirs = << [lba |-> 2, parent |-> 2, len |-> ImgSector, pseudo |-> FALSE,
                     recs |-> <<DirRec(<<0>>, 2, 2 * ImgSector),
                                DirRec(<<1>>, 2, 2 * ImgSector),
                                FileRec(NameA, 8, 5)>>],
                    [lba |-> 3, parent |-> 2, len |-> ImgSector, pseudo |-> FALSE,
                     recs |-> <<FileRec(NameB, 9, 3)>>] >>]

Descs == <<DescTree, DescChain, DescNoMagic, DescLateMagic, DescNoTerminator,
           DescCutChain, DescShortFile, DescDecoy, DescLoop, DescOrder,
           DescMismatch, DescSmallSector, DescSlashName, DescVersionedDir,
           DescFullDir, DescTwoSectorDir>>

-----------------------------------------------------------------------------
(* The file object: seek, read, tell *)

\* the byte of self.file at the 0-based offset i < file.len
FileByte(i) == IF i \in DOMAIN file.data THEN file.data[i] ELSE 0

\* the bytes a span denotes
Bytes(sp) == [k \in 1..sp.len |-> FileByte(sp.off + k - 1)] \o <<>>
\* len(b), b[i], b[a:b] on a span
SpanAt(sp, i) == FileByte(sp.off + i)
EmptySpan == [off |-> 0, len |-> 0]
SpanSlice(sp, a, b) ==
    LET hi == Min2(b, sp.len)
    IN  IF a >= hi THEN EmptySpan ELSE [off |-> sp.off + a, len |-> hi - a]

\* self.file.read(n) at cursor p: the span returned (the cursor moves by its len)
FileRead(p, n) ==
    LET avail == Max2(file.len - p, 0)
        got   == IF n < 0 THEN avail ELSE Min2(n, avail)
    IN  IF got = 0 THEN EmptySpan ELSE [off |-> p, len |-> got]

-----------------------------------------------------------------------------
(* FileSystem.read_file (common.py) *)

\* a faulty read_file: the seek back of line 83 is left out
read_file_no_return(p, offset, length, return_to_init) ==
    IF offset < 0
    THEN [err |-> "ValueError", data |-> EmptySpan, pos |-> p]
    ELSE [err |-> "", data |-> FileRead(offset, length),
          pos |-> offset + FileRead(offset, length).len]

\* the outcome of read_file(offset, length, return_to_init) with the cursor at p
read_file(p, offset, length, return_to_init) ==
    IF offset < 0
    THEN [err |-> "ValueError", data |-> EmptySpan, pos |-> p]   \* seek(offset) raises
    ELSE LET data == FileRead(offset, length)
         IN  [err |-> "", data |-> data,
              pos |-> IF return_to_init THEN p ELSE offset + data.len]

-----------------------------------------------------------------------------
(* IsoFS accessors.  Each takes the decoder's fields as a record            *)
(* fs = [pos, sector_size, system_area, volume_descriptors, loaded] and     *)
(* returns [fs, err, ret]: the fields after the call, the exception raised  *)
(* ("" if none) and the value returned.  fs.loaded names the entities the   *)
(* step has read from self.file in order to cache them, one per read.       *)

\* whether the word 'CD001' stands at the offset i of the file
MagicAt(i) ==
    \A k \in 1..Len(ISO9660_PVD_MAGIC_WORD) :
        FileByte(i + k - 1) = ISO9660_PVD_MAGIC_WORD[k]

\* a faulty find: the word is looked for in the whole file, not in the chunk
find_anywhere(chunk) ==
    LET hit == {i \in DOMAIN file.data :
                    i + Len(ISO9660_PVD_MAGIC_WORD) <= file.len /\ MagicAt(i)}
    IN  IF hit = {} THEN -1 ELSE SetMin(hit)

\* chunk.find(ISO9660_PVD_MAGIC_WORD): first index of the word in the span
\* chunk, or -1 (the word starts with a non-zero byte)
find(chunk) ==
    LET hit == {i \in DOMAIN file.data :
                    /\ chunk.off <= i
                    /\ i + Len(ISO9660_PVD_MAGIC_WORD) <= chunk.off + chunk.len
                    /\ MagicAt(i)}
    IN  IF hit = {} THEN -1 ELSE SetMin(hit) - chunk.off

\* lines 156-160 of get_sector_size: from the offset find() returned
sector_size_from(fs, magic_word_offset) ==
    IF magic_word_offset = -1
    THEN [fs |-> fs, err |-> "ValueError", ret |-> 0]
    ELSE [fs |-> [fs EXCEPT !.sector_size = Some((magic_word_offset - 1) \div 16)],
          err |-> "", ret |-> (magic_word_offset - 1) \div 16]

\* seek(0); read; seek(start_offset): the cursor is back at fs.pos
get_sector_size(fs) ==
    IF ~IsNone(fs.sector_size)
    THEN [fs |-> fs, err |-> "", ret |-> Val(fs.sector_size)]
    ELSE sector_size_from([fs EXCEPT !.loaded = Append(@, "sector_size")],
                          find(FileRead(0, MAGIC_WORD_SEARCH_SIZE)))

\* a faulty load: the seek of line 172 is left out, the cursor stays behind
\* the system area
system_area_from_no_restore(start_offset, r) ==
    IF r.err /= "" THEN r
    ELSE [fs |-> [r.fs EXCEPT !.system_area = Some(FileRead(0, 16 * r.ret)),
                              !.pos = FileRead(0, 16 * r.ret).len,
                              !.loaded = Append(@, "system_area")],
          err |-> "", ret |-> FileRead(0, 16 * r.ret)]

\* lines 169-172 of get_system_area: from the outcome r of get_sector_size
system_area_from(start_offset, r) ==
    IF r.err /= "" THEN r
    ELSE [fs |-> [r.fs EXCEPT !.system_area = Some(FileRead(0, 16 * r.ret)),
                              !.pos = start_offset,
                              !.loaded = Append(@, "system_area")],
          err |-> "", ret |-> FileRead(0, 16 * r.ret)]

get_system_area(fs) ==
    IF ~IsNone(fs.system_area)
    THEN [fs |-> fs, err |-> "", ret |-> Val(fs.system_area)]
    ELSE system_area_from(fs.pos, get_sector_size([fs EXCEPT !.pos = 0]))  \* after seek(0)

\* volume_descriptors[k] = v on the dict d
DictPut(d, k, v) == [x \in (DOMAIN d) \cup {k} |-> IF x = k THEN v ELSE d[x]]

RECURSIVE load_descriptors(_)

\* lines 185-188: the sector just read is stored under its type code
store_descriptor(fs, next_volume_descriptor) ==
    LET fs1 == [fs EXCEPT !.pos = fs.pos + next_volume_descriptor.len,
                          !.volume_descriptors =
                              DictPut(@, SpanAt(next_volume_descriptor, 0),
                                      next_volume_descriptor)]
    IN  IF next_volume_descriptor.len = 0
        THEN [fs |-> fs, err |-> "IndexError"]      \* b''[0]
        ELSE IF SpanAt(next_volume_descriptor, 0) = 255 THEN [fs |-> fs1, err |-> ""]
        ELSE load_descriptors(fs1)

\* the `while True` loop of get_volume_descriptors, the cursor at fs.pos
load_descriptors(fs) == store_descriptor(fs, FileRead(fs.pos, Val(fs.sector_size)))

\* lines 189-190: from the outcome l of the loop
descriptors_loaded(start_offset, l) ==
    IF l.err /= "" THEN [fs |-> l.fs, err |-> l.err, ret |-> <<>>]
    ELSE [fs |-> [l.fs EXCEPT !.pos = start_offset], err |-> "",
          ret |-> l.fs.volume_descriptors]

\* lines 181-184: from the outcome r of get_sector_size
descriptors_from(start_offset, r) ==
    IF r.err /= "" THEN [fs |-> r.fs, err |-> r.err, ret |-> <<>>]
    ELSE IF 16 * r.ret < 0                    \* seek of a negative offset
    THEN [fs |-> r.fs, err |-> "ValueError", ret |-> <<>>]
    ELSE descriptors_loaded(start_offset,
             load_descriptors([r.fs EXCEPT !.pos = 16 * r.ret,
                                           !.loaded = Append(@, "volume_descriptors")]))

get_volume_descriptors(fs) ==
    IF DOMAIN fs.volume_descriptors /= {}
    THEN [fs |-> fs, err |-> "", ret |-> fs.volume_descriptors]
    ELSE descriptors_from(fs.pos, get_sector_size(fs))

-----------------------------------------------------------------------------
(* Strings.  A str is the sequence of its code points, a bytes value the   *)
(* sequence of its bytes.                                                   *)

IsCont(c) == c >= 128 /\ c <= 191

\* bytes.decode() (UTF-8, strict) from index i: [ok, s]
RECURSIVE decode_from(_, _)
decode_from(b, i) ==
    IF i > Len(b) THEN [ok |-> TRUE, s |-> <<>>]
    ELSE
    LET c  == b[i]
        n  == Len(b)
        c1 == IF i + 1 <= n THEN b[i + 1] ELSE 0
        c2 == IF i + 2 <= n THEN b[i + 2] ELSE 0
        c3 == IF i + 3 <= n THEN b[i + 3] ELSE 0
        go(k, cp) == LET r == decode_from(b, i + k)
                     IN  IF r.ok THEN [ok |-> TRUE, s |-> <<cp>> \o r.s] ELSE r
        bad == [ok |-> FALSE, s |-> <<>>]
    IN  IF c < 128 THEN go(1, c)
        ELSE IF c >= 194 /\ c <= 223
        THEN IF IsCont(c1) THEN go(2, (c - 192) * 64 + (c1 - 128)) ELSE bad
        ELSE IF c >= 224 /\ c <= 239
        THEN IF /\ IsCont(c1) /\ IsCont(c2)
                /\ (c = 224 => c1 >= 160)
                /\ (c = 237 => c1 <= 159)
             THEN go(3, (c - 224) * 4096 + (c1 - 128) * 64 + (c2 - 128))
             ELSE bad
        ELSE IF c >= 240 /\ c <= 244
        THEN IF /\ IsCont(c1) /\ IsCont(c2) /\ IsCont(c3)
                /\ (c = 240 => c1 >= 144)
                /\ (c = 244 => c1 <= 143)
             THEN go(4, (c - 240) * 262144 + (c1 - 128) * 4096
                        + (c2 - 128) * 64 + (c3 - 128))
             ELSE bad
        ELSE bad

decode(b) == decode_from(b, 1)

\* the code points str.rstrip() strips (str.isspace)
Whitespace ==
    (9..13) \cup (28..32) \cup {133, 160, 5760} \cup (8192..8202)
    \cup {8232, 8233, 8239, 8287, 12288}

RECURSIVE rstrip(_, _)
rstrip(s, chars) ==
    IF s /= <<>> /\ s[Len(s)] \in chars
    THEN rstrip(SubSeq(s, 1, Len(s) - 1), chars) ELSE s

\* IsoFS.clean_string: s.rstrip(b'\x00').decode().rstrip();
\* [ok, s]: the str, or ok = FALSE when decode() raises UnicodeDecodeError
clean_string(s) ==
    LET d == decode(rstrip(s, {0}))
    IN  IF d.ok THEN [ok |-> TRUE, s |-> rstrip(d.s, Whitespace)] ELSE d

-----------------------------------------------------------------------------
(* Date and time *)

\* str(x).zfill(2) as decimal digits, 0 <= x <= 255
Digits2(x) ==
    IF x < 100 THEN <<x \div 10, x % 10>>
    ELSE <<x \div 100, (x \div 10) % 10, x % 10>>

\* the characters '+', '-', '0'..'9'
Plus == 43
Minus == 45
Chr(d) == 48 + d

\* a faulty conversion: the whole hours are rounded down (floor) where int()
\* rounds towards zero
tz_offset_to_datetime_str_floor(x) ==
    LET q    == x - 48
        aq   == IF q < 0 THEN -q ELSE q
        tz_offset_sign == IF q < 0 THEN Minus ELSE Plus
        hh   == Digits2(IF q < 0 THEN (aq + 3) \div 4 ELSE aq \div 4)
        mm   == Digits2(((aq % 4) * 60) \div 4)
    IN  <<tz_offset_sign>> \o [i \in 1..Len(hh) |-> Chr(hh[i])]
                           \o [i \in 1..Len(mm) |-> Chr(mm[i])]

\* IsoFS.tz_offset_to_datetime_str(x).  tz_offset_hours = x/4 - 12 is a
\* multiple of a quarter of an hour, held here in quarter hours (q = 4 * hours)
tz_offset_to_datetime_str(x) ==
    LET q    == x - 48
        aq   == IF q < 0 THEN -q ELSE q
        tz_offset_sign == IF q < 0 THEN Minus ELSE Plus
        hh   == Digits2(aq \div 4)                 \* abs(int(hours))
        mm   == Digits2(((aq % 4) * 60) \div 4)    \* int((abs(hours) % 1) * 60)
    IN  <<tz_offset_sign>> \o [i \in 1..Len(hh) |-> Chr(hh[i])]
                           \o [i \in 1..Len(mm) |-> Chr(mm[i])]

\* the two-digit and one-digit alternatives of the strptime directives
\* %m %d %H %M %S (k = 1..5), in the order the regular expression tries them
TwoDigits(k, a, b) ==
    CASE k = 1 -> (a = 1 /\ b <= 2) \/ (a = 0 /\ b >= 1)
      [] k = 2 -> (a = 3 /\ b <= 1) \/ a \in {1, 2} \/ (a = 0 /\ b >= 1)
      [] k = 3 -> (a = 2 /\ b <= 3) \/ a <= 1
      [] k = 4 -> a <= 5
      [] k = 5 -> (a = 6 /\ b <= 1) \/ a <= 5
OneDigit(k, a) == IF k <= 2 THEN a >= 1 ELSE TRUE

\* match %m%d%H%M%S%f on the digits ds from index i, as the backtracking
\* regular expression of _strptime does; `anchored`: a %z follows, so %f must
\* end where the digits end.  [ok, vals, f, end]
RECURSIVE match_fields(_, _, _, _)
match_fields(ds, k, i, anchored) ==
    LET n    == Len(ds)
        rem  == n - i + 1
        fail == [ok |-> FALSE, vals |-> <<>>, f |-> <<>>, end |-> i]
    IN  IF k = 6
        THEN IF rem < 1 \/ (anchored /\ rem > 6) THEN fail
             ELSE LET w == Min2(rem, 6)
                  IN  [ok |-> TRUE, vals |-> <<>>, f |-> SubSeq(ds, i, i + w - 1),
                       end |-> i + w]
        ELSE
        LET two == IF rem >= 2 /\ TwoDigits(k, ds[i], ds[i + 1])
                   THEN match_fields(ds, k + 1, i + 2, anchored) ELSE fail
            one == IF rem >= 1 /\ OneDigit(k, ds[i])
                   THEN match_fields(ds, k + 1, i + 1, anchored) ELSE fail
        IN  IF two.ok THEN [two EXCEPT !.vals = <<10 * ds[i] + ds[i + 1]>> \o @]
            ELSE IF one.ok THEN [one EXCEPT !.vals = <<ds[i]>> \o @]
            ELSE fail

IsLeap(y) == (y % 4 = 0 /\ y % 100 /= 0) \/ y % 400 = 0
DaysIn(y, m) ==
    IF m = 2 THEN (IF IsLeap(y) THEN 29 ELSE 28)
    ELSE IF m \in {4, 6, 9, 11} THEN 30 ELSE 31

\* int(f.ljust(6, '0')): the microseconds of the %f digits
Micro(f) ==
    LET d(i) == IF i <= Len(f) THEN f[i] ELSE 0
    IN  d(1) * 100000 + d(2) * 10000 + d(3) * 1000 + d(4) * 100 + d(5) * 10 + d(6)

\* datetime.strptime(dt_str [+ tz], '%Y%m%d%H%M%S%f[%z]') where dt_str is the
\* 4-digit year followed by the digits ds; tz is <<>> or a '+hhmm' string.
\* [ok, dt]: ok = FALSE when strptime raises ValueError
strptime(year, ds, tz) ==
    LET m   == match_fields(ds, 1, 1, tz /= <<>>)
        bad == [ok |-> FALSE, dt |-> <<>>]
    IN  IF ~m.ok \/ m.end /= Len(ds) + 1 THEN bad
        ELSE IF m.vals[2] > DaysIn(year, m.vals[1]) \/ m.vals[5] > 59 THEN bad
        ELSE
        LET off == IF tz = <<>> THEN 0
                   ELSE (IF tz[1] = Minus THEN -1 ELSE 1)
                        * (((tz[2] - 48) * 10 + (tz[3] - 48)) * 60
                           + (tz[4] - 48) * 10 + (tz[5] - 48))
        IN  IF tz /= <<>> /\ (off >= 1440 \/ off <= -1440) THEN bad
            ELSE [ok |-> TRUE,
                  dt |-> [year |-> year, month |-> m.vals[1], day |-> m.vals[2],
                          hour |-> m.vals[3], minute |-> m.vals[4],
                          second |-> m.vals[5], microsecond |-> Micro(m.f),
                          tzinfo |-> IF tz = <<>> THEN None ELSE Some(off)]]

\* a faulty parse: the fallback of line 87 is left out
parse_directory_datetime_no_fallback(data) ==
    strptime(data[1] + 1900,
             Digits2(data[2]) \o Digits2(data[3]) \o Digits2(data[4])
                 \o Digits2(data[5]) \o Digits2(data[6]),
             tz_offset_to_datetime_str(data[7]))

\* IsoFS.parse_directory_datetime on 7 bytes: [ok, dt]
parse_directory_datetime(data) ==
    LET ds == Digits2(data[2]) \o Digits2(data[3]) \o Digits2(data[4])
              \o Digits2(data[5]) \o Digits2(data[6])
        tz_offset_str == tz_offset_to_datetime_str(data[7])
        r  == strptime(data[1] + 1900, ds, tz_offset_str)
    IN  IF r.ok THEN r ELSE strptime(data[1] + 1900, ds, <<>>)

\* line 66: ''.join(str(v) if v < 48 else chr(v) for v in data[0:16]),
\* from the 1-based index i on
RECURSIVE pvd_dt_str(_, _)
pvd_dt_str(data, i) ==
    IF i > 16 \/ i > Len(data) THEN <<>>
    ELSE (IF data[i] >= 48 THEN <<data[i]>>
          ELSE IF data[i] < 10 THEN <<Chr(data[i])>>
          ELSE <<Chr(data[i] \div 10), Chr(data[i] % 10)>>)
         \o pvd_dt_str(data, i + 1)

\* strptime on a string of characters: only the digits '0'..'9' match the
\* directives, and the year 0000 is out of datetime's range
strptime_str(chars, tz) ==
    IF \E i \in 1..Len(chars) : chars[i] \notin 48..57
    THEN [ok |-> FALSE, dt |-> <<>>]
    ELSE IF 1000 * (chars[1] - 48) + 100 * (chars[2] - 48)
               + 10 * (chars[3] - 48) + (chars[4] - 48) = 0
    THEN [ok |-> FALSE, dt |-> <<>>]
    ELSE strptime(1000 * (chars[1] - 48) + 100 * (chars[2] - 48)
                      + 10 * (chars[3] - 48) + (chars[4] - 48),
                  [i \in 1..(Len(chars) - 4) |-> chars[i + 4] - 48],
                  tz)

\* lines 68-71: the string with the offset, else the string alone
pvd_datetime_of(chars, r) == IF r.ok THEN r ELSE strptime_str(chars, <<>>)

\* IsoFS.parse_pvd_datetime: [ok, dt], ok = FALSE when it raises ValueError
parse_pvd_datetime(data) ==
    IF Len(data) /= 17 THEN [ok |-> FALSE, dt |-> <<>>]
    ELSE pvd_datetime_of(pvd_dt_str(data, 1) \o <<48, 48, 48, 48>>,
                         strptime_str(pvd_dt_str(data, 1) \o <<48, 48, 48, 48>>,
                                      tz_offset_to_datetime_str(data[17])))

-----------------------------------------------------------------------------
(* Paths (pathlib.PurePosixPath): the sequence of the path's parts *)

\* Path('')
RootPath == [abs |-> FALSE, parts |-> <<>>]

\* the parts of the str fn: split at '/', '' and '.' dropped
RECURSIVE path_parts(_, _)
path_parts(fn, cur) ==
    LET keep == IF cur = <<>> \/ cur = <<46>> THEN <<>> ELSE <<cur>>
    IN  IF fn = <<>> THEN keep
        ELSE IF Head(fn) = 47 THEN keep \o path_parts(Tail(fn), <<>>)
        ELSE path_parts(Tail(fn), Append(cur, Head(fn)))

\* path / fn for a str fn
PathJoin(path, fn) ==
    IF fn /= <<>> /\ Head(fn) = 47
    THEN [abs |-> TRUE, parts |-> path_parts(fn, <<>>)]
    ELSE [abs |-> path.abs, parts |-> path.parts \o path_parts(fn, <<>>)]

-----------------------------------------------------------------------------
(* IsoFS.parse_directory_record *)

\* the exception indexing and unpack raise on a record of n < 33 bytes
ShortRecordError(n) ==
    IF n < 2 THEN "IndexError"
    ELSE IF n < 18 THEN "struct.error"
    ELSE IF n < 28 THEN "IndexError"
    ELSE IF n < 32 THEN "struct.error"
    ELSE "IndexError"

Bit(v, k) == (v \div k) % 2 = 1

\* the dict built by parse_directory_record, from the cleaned filename fn
\* and the parsed date and time dt
directory_record(data, fn, dt) ==
    [directory_record_length |-> At(data, 0),
     extended_attribute_record_length |-> At(data, 1),
     data_location_LE |-> UnpackLE32(PySlice(data, 2, 6)),
     data_location_BE |-> UnpackBE32(PySlice(data, 6, 10)),
     data_length_LE |-> UnpackLE32(PySlice(data, 10, 14)),
     data_length_BE |-> UnpackBE32(PySlice(data, 14, 18)),
     \* the parsed datetime, or the raw bytes when parsing raised
     datetime |-> IF dt.ok THEN [parsed |-> TRUE, v |-> dt.dt]
                  ELSE [parsed |-> FALSE, v |-> PySlice(data, 18, 25)],
     file_flags |-> [is_hidden |-> Bit(At(data, 25), 1),
                     is_directory |-> Bit(At(data, 25), 2),
                     is_associated_file |-> Bit(At(data, 25), 4),
                     format_in_extended_attribute |-> Bit(At(data, 25), 8),
                     permissions_in_extended_attribute |-> Bit(At(data, 25), 16),
                     reserved_5 |-> Bit(At(data, 25), 32),
                     reserved_6 |-> Bit(At(data, 25), 64),
                     not_final_directory |-> Bit(At(data, 25), 128)],
     interleave_file_unit_size |-> At(data, 26),
     interleave_gap_size |-> At(data, 27),
     volume_sequence_number_LE |-> UnpackLE16(PySlice(data, 28, 30)),
     volume_sequence_number_BE |-> UnpackBE16(PySlice(data, 30, 32)),
     filename_length |-> At(data, 32),
     \* the cleaned str, or the raw bytes when decoding raised
     filename |-> IF fn.ok THEN [str |-> TRUE, v |-> fn.s]
                  ELSE [str |-> FALSE, v |-> PySlice(data, 33, 33 + At(data, 32))]]

\* [err, out]: out is the parsed record (a dict in the code)
parse_directory_record(data) ==
    IF Len(data) < 33 THEN [err |-> ShortRecordError(Len(data)), out |-> <<>>]
    ELSE [err |-> "",
          out |-> directory_record(data,
                      clean_string(PySlice(data, 33, 33 + At(data, 32))),
                      parse_directory_datetime(PySlice(data, 18, 25)))]

-----------------------------------------------------------------------------
(* IsoFS.parse_primary_volume_descriptor *)

\* the exception indexing and unpack raise on a PVD of n < 883 bytes
ShortPvdError(n) ==
    IF n < 8 THEN "IndexError"
    ELSE IF n < 156 THEN "struct.error"
    ELSE "IndexError"

\* line 348: the dict returned, of which the model keeps the root directory
\* entry; root is the outcome of parse_directory_record on pvd[156:190]
pvd_dict(fs, root) ==
    IF root.err /= "" THEN [fs |-> fs, err |-> root.err, ret |-> None]
    ELSE [fs |-> fs, err |-> "", ret |-> Some([root_directory_entry |-> root.out])]

\* lines 278-347: from the outcome r of get_volume_descriptors
pvd_from(r) ==
    IF r.err /= "" THEN [fs |-> r.fs, err |-> r.err, ret |-> None]
    ELSE IF 1 \notin DOMAIN r.ret THEN [fs |-> r.fs, err |-> "", ret |-> None]
    ELSE IF r.ret[1].len < 883
    THEN [fs |-> r.fs, err |-> ShortPvdError(r.ret[1].len), ret |-> None]
    ELSE pvd_dict(r.fs, parse_directory_record(Bytes(SpanSlice(r.ret[1], 156, 190))))

\* [fs, err, ret]: ret is None when the image has no type-1 descriptor,
\* else the parsed PVD
parse_primary_volume_descriptor(fs) == pvd_from(get_volume_descriptors(fs))

-----------------------------------------------------------------------------
(* IsoFS.__iter__: a generator.  A machine m = [fs, g] is the decoder's      *)
(* fields and one generator's frame; the operators below run the frame from *)
(* one suspension point to the next.  g.pc is where the frame stands:       *)
(*   "new"         created, body not entered (no next() yet)                 *)
(*   "yield_dir"   suspended at the yield of line 389 (a directory marker)  *)
(*   "yield_file"  suspended at the yield of line 412 (a file)              *)
(*   "done"        returned (StopIteration)                                  *)
(*   "failed"      an exception left the frame (g.err)                       *)
(* An element of to_visit and an entry of out also record `parent`, the     *)
(* value of curr_path when the record was found: the path of the directory  *)
(* whose data holds the record.                                             *)

NewGen ==
    [pc |-> "new", start_offset |-> 0, to_visit |-> <<>>, curr_path |-> RootPath,
     curr_directory_entry |-> <<>>, curr_data |-> EmptySpan, ind |-> 0,
     next_len |-> 0, out |-> <<>>, err |-> "",
     \* whether another generator was suspended when this one was started
     overlap |-> FALSE]

Fail(m, e) == [m EXCEPT !.g.pc = "failed", !.g.err = e]

\* a faulty name filter: only the str '' ('.') is ignored
IsPseudoName_dot_only(fn) == fn.str /\ fn.v = <<>>

\* the name filter of line 405: the str '' and the str '\x01'
IsPseudoName(fn) == fn.str /\ fn.v \in {<<>>, <<1>>}

RECURSIVE outer_loop(_), scan_loop(_)

\* lines 392-394: read the directory's data, then scan it
read_directory(m) ==
    LET e   == m.g.curr_directory_entry
        off == e.data_location_LE * Val(m.fs.sector_size)
        curr_data == FileRead(off, e.data_length_LE)
    IN  IF off < 0 THEN Fail(m, "ValueError")
        ELSE scan_loop([m EXCEPT !.fs.pos = off + curr_data.len,
                                 !.g.curr_data = curr_data,
                                 !.g.ind = 0])

\* a faulty visit: the directory is read without being yielded first
visit_unmarked(m, top) ==
    read_directory([m EXCEPT !.g.curr_path = top.path,
                             !.g.curr_directory_entry = top.entry])

\* lines 386-389: the entry popped from to_visit is the current directory
visit(m, top) ==
    IF top.path /= RootPath
    THEN [m EXCEPT !.g.curr_path = top.path,
                   !.g.curr_directory_entry = top.entry,
                   !.g.pc = "yield_dir",
                   !.g.out = Append(@, [path |-> top.path,
                                        datetime |-> top.entry.datetime,
                                        data |-> None, parent |-> top.parent])]
    ELSE read_directory([m EXCEPT !.g.curr_path = top.path,
                                  !.g.curr_directory_entry = top.entry])

\* a faulty loop: to_visit is used as a queue, the oldest entry is taken
outer_loop_fifo(m) ==
    IF m.g.to_visit = <<>>
    THEN [m EXCEPT !.fs.pos = m.g.start_offset, !.g.pc = "done"]
    ELSE visit([m EXCEPT !.g.to_visit = Tail(@)], Head(m.g.to_visit))

\* a faulty loop: the seek of line 414 is left out
outer_loop_no_restore(m) ==
    IF m.g.to_visit = <<>>
    THEN [m EXCEPT !.g.pc = "done"]
    ELSE visit([m EXCEPT !.g.to_visit = SubSeq(@, 1, Len(@) - 1)],
               m.g.to_visit[Len(m.g.to_visit)])

\* lines 385-386: the `while len(to_visit) != 0` loop, from its test
outer_loop(m) ==
    IF m.g.to_visit = <<>>
    THEN [m EXCEPT !.fs.pos = m.g.start_offset, !.g.pc = "done"]     \* line 414
    ELSE visit([m EXCEPT !.g.to_visit = SubSeq(@, 1, Len(@) - 1)],
               m.g.to_visit[Len(m.g.to_visit)])

\* a faulty file entry: the seek of line 410 is left out, the data is read
\* at the cursor
file_entry_at_cursor(m, next_len, next_entry, off, next_data) ==
    IF ~next_entry.filename.str
    THEN Fail([m EXCEPT !.fs.pos = @ + FileRead(m.fs.pos, next_entry.data_length_LE).len,
                        !.g.next_len = next_len],
              "TypeError")
    ELSE [m EXCEPT !.fs.pos = @ + FileRead(m.fs.pos, next_entry.data_length_LE).len,
                   !.g.next_len = next_len,
                   !.g.pc = "yield_file",
                   !.g.out = Append(@,
                       [path |-> PathJoin(m.g.curr_path, next_entry.filename.v),
                        datetime |-> next_entry.datetime,
                        data |-> Some(FileRead(m.fs.pos, next_entry.data_length_LE)),
                        parent |-> m.g.curr_path])]

\* lines 408-412: a file entry: its data is read and the entry is yielded
file_entry(m, next_len, next_entry, off, next_data) ==
    IF off < 0 THEN Fail(m, "ValueError")
    ELSE IF ~next_entry.filename.str
    THEN Fail([m EXCEPT !.fs.pos = off + next_data.len, !.g.next_len = next_len],
              "TypeError")                                         \* Path / bytes
    ELSE [m EXCEPT !.fs.pos = off + next_data.len,
                   !.g.next_len = next_len,
                   !.g.pc = "yield_file",
                   !.g.out = Append(@,
                       [path |-> PathJoin(m.g.curr_path, next_entry.filename.v),
                        datetime |-> next_entry.datetime,
                        data |-> Some(next_data), parent |-> m.g.curr_path])]

\* a faulty scan: a file's data is addressed by the big-endian copies
scan_entry_be(m, next_len, p) ==
    IF p.err /= "" THEN Fail(m, p.err)
    ELSE IF p.out.file_flags.is_directory
    THEN IF IsPseudoName(p.out.filename)
         THEN scan_loop([m EXCEPT !.g.ind = m.g.ind + next_len])
         ELSE IF ~p.out.filename.str
         THEN Fail(m, "TypeError")
         ELSE scan_loop([m EXCEPT
                !.g.to_visit = Append(@,
                    [path |-> PathJoin(m.g.curr_path, p.out.filename.v),
                     entry |-> p.out, parent |-> m.g.curr_path]),
                !.g.ind = m.g.ind + next_len])
    ELSE file_entry(m, next_len, p.out,
                    p.out.data_location_BE * Val(m.fs.sector_size),
                    FileRead(p.out.data_location_BE * Val(m.fs.sector_size),
                             p.out.data_length_BE))

\* lines 403-413: the record at ind was parsed, with outcome p
scan_entry(m, next_len, p) ==
    IF p.err /= "" THEN Fail(m, p.err)
    ELSE IF p.out.file_flags.is_directory
    THEN IF IsPseudoName(p.out.filename)
         THEN scan_loop([m EXCEPT !.g.ind = m.g.ind + next_len])
         ELSE IF ~p.out.filename.str
         THEN Fail(m, "TypeError")                                 \* Path / bytes
         ELSE scan_loop([m EXCEPT
                !.g.to_visit = Append(@,
                    [path |-> PathJoin(m.g.curr_path, p.out.filename.v),
                     entry |-> p.out, parent |-> m.g.curr_path]),
                !.g.ind = m.g.ind + next_len])
    ELSE file_entry(m, next_len, p.out,
                    p.out.data_location_LE * Val(m.fs.sector_size),
                    FileRead(p.out.data_location_LE * Val(m.fs.sector_size),
                             p.out.data_length_LE))

\* lines 397-402: the length byte at ind; 0 ends the directory
scan_record(m, next_len) ==
    IF next_len = 0 THEN outer_loop(m)                             \* break
    ELSE scan_entry(m, next_len,
            parse_directory_record(
                Bytes(SpanSlice(m.g.curr_data, m.g.ind, m.g.ind + next_len))))

\* lines 395-413: the `while True` loop, from its first statement
scan_loop(m) ==
    IF m.g.ind >= m.g.curr_data.len THEN Fail(m, "IndexError")     \* curr_data[ind]
    ELSE scan_record(m, SpanAt(m.g.curr_data, m.g.ind))

\* lines 381-384: from the outcome r of parse_primary_volume_descriptor
iter_from(m, start_offset, r) ==
    IF r.err /= ""
    THEN Fail([m EXCEPT !.fs = r.fs, !.g.start_offset = start_offset], r.err)
    ELSE IF IsNone(r.ret)                          \* None['root_directory_entry']
    THEN Fail([m EXCEPT !.fs = r.fs, !.g.start_offset = start_offset], "TypeError")
    ELSE outer_loop([m EXCEPT !.fs = r.fs, !.g.start_offset = start_offset,
                              !.g.to_visit = <<[path |-> RootPath,
                                  entry |-> Val(r.ret).root_directory_entry,
                                  parent |-> RootPath]>>])

\* lines 379-382, then the loop: the first next() on a generator
start_iter(m) == iter_from(m, m.fs.pos, parse_primary_volume_descriptor(m.fs))

\* next(generator): run the frame to its next yield, return or exception
resume(m) ==
    CASE m.g.pc = "new"        -> start_iter(m)
      [] m.g.pc = "yield_dir"  -> read_directory(m)
      [] m.g.pc = "yield_file" -> scan_loop([m EXCEPT !.g.ind = m.g.ind + m.g.next_len])

-----------------------------------------------------------------------------
(* The decoder and its client *)

FS == [pos |-> pos, sector_size |-> sector_size, system_area |-> system_area,
       volume_descriptors |-> volume_descriptors, loaded |-> <<>>]

SetFS(fs) ==
    /\ pos' = fs.pos
    /\ sector_size' = fs.sector_size
    /\ system_area' = fs.system_area
    /\ volume_descriptors' = fs.volume_descriptors
    /\ loads' = fs.loaded

Suspended(g) == gens[g].pc \in {"yield_dir", "yield_file"}
Live(g) == gens[g].pc \in {"new", "yield_dir", "yield_file"}

\* cursor positions the file object is handed to IsoFS at
StartPositions == {7}
\* arguments the client passes to read_file
ReadOffsets == {-1, 0, 3, file.len - 1, file.len + 2}
ReadLengths == {-1, 0, 2}

\* the outcome of a call: its name, the exception it raised, whether it left
\* the cursor where it was, its arguments and the value it returned
Outcome(op, err, kept, args, ret) ==
    [op |-> op, err |-> err, kept |-> kept, args |-> args, ret |-> ret]
NoCall == Outcome("", "", TRUE, <<>>, <<>>)

\* no GcmFS instance is made on the file
NoGcm == [made |-> "absent"]

Init ==
    /\ img \in 1..Len(Descs)
    /\ file = BuildImage(Descs[img])
    /\ pos \in StartPositions
    /\ sector_size = None
    /\ system_area = None
    /\ volume_descriptors = <<>>
    /\ gens = [g \in 1..MaxIters |-> NewGen]
    /\ last = NoCall
    /\ loads = <<>>
    /\ gcm = NoGcm

\* the frame g stands where the machine m stopped
Resumed(g, m) ==
    /\ SetFS(m.fs)
    /\ gens' = [gens EXCEPT ![g] = m.g]

\* next(it) on the g-th generator made by iter(fs)
Pull(g) ==
    /\ Live(g)
    /\ Len(gens[g].out) < MaxYields
    /\ g > 1 => gens[g - 1].pc /= "new"
    /\ Resumed(g, resume([fs |-> FS,
                          g  |-> IF gens[g].pc = "new"
                                 THEN [gens[g] EXCEPT !.overlap =
                                          \E h \in 1..MaxIters : Suspended(h)]
                                 ELSE gens[g]]))
    /\ last' = NoCall
    /\ UNCHANGED <<img, file, gcm>>

\* the accessor op returned or raised, with outcome r
Returned(op, r) ==
    /\ SetFS(r.fs)
    /\ last' = Outcome(op, r.err, r.fs.pos = pos, <<>>,
                       IF r.err = "" THEN Some(r.ret) ELSE None)

CallGetSectorSize ==
    /\ Returned("get_sector_size", get_sector_size(FS))
    /\ UNCHANGED <<img, file, gens, gcm>>

CallGetSystemArea ==
    /\ Returned("get_system_area", get_system_area(FS))
    /\ UNCHANGED <<img, file, gens, gcm>>

CallGetVolumeDescriptors ==
    /\ Returned("get_volume_descriptors", get_volume_descriptors(FS))
    /\ UNCHANGED <<img, file, gens, gcm>>

CallParsePrimaryVolumeDescriptor ==
    /\ Returned("parse_primary_volume_descriptor", parse_primary_volume_descriptor(FS))
    /\ UNCHANGED <<img, file, gens, gcm>>

\* read_file returned or raised, with outcome r
ReadReturned(args, r) ==
    /\ pos' = r.pos
    /\ loads' = <<>>
    /\ last' = Outcome("read_file", r.err, r.pos = pos, args,
                       IF r.err = "" THEN Some(r.data) ELSE None)

CallReadFile(offset, length, return_to_init) ==
    /\ ReadReturned(<<offset, length, return_to_init>>,
                    read_file(pos, offset, length, return_to_init))
    /\ UNCHANGED <<img, file, sector_size, system_area, volume_descriptors, gens,
                   gcm>>

\* the decoder in use: iteration, the accessors, and a read_file (of the
\* first two bytes of sector 2) that moves the cursor between two pulls
Next ==
    \/ \E g \in 1..MaxIters : Pull(g)
    \/ CallGetSectorSize
    \/ CallGetSystemArea
    \/ CallGetVolumeDescriptors
    \/ CallParsePrimaryVolumeDescriptor
    \/ CallReadFile(2 * ImgSector, 2, FALSE)

Spec == Init /\ [][Next]_vars

\* the read primitive alone, over every argument
NextRead ==
    \E offset \in ReadOffsets, length \in ReadLengths, return_to_init \in BOOLEAN :
        CallReadFile(offset, length, return_to_init)

SpecRead == Init /\ [][NextRead]_vars

-----------------------------------------------------------------------------
(* The date and time parsers, called on their own *)

\* every value of the offset byte
TzBytes == 0..255
\* years since 1900, month, day, hour, minute, second of a directory record
DirStamps == { <<100, 1, 2, 3, 4, 5>>, <<124, 2, 29, 23, 59, 59>>,
               <<0, 12, 31, 0, 0, 0>> }
\* the 16 ASCII digits of a PVD date and time: 2000-01-02 03:04:05.06,
\* 2024-02-29 23:59:59.99, 0001-12-31 00:00:00.00
PvdStamps == { <<50, 48, 48, 48, 48, 49, 48, 50, 48, 51, 48, 52, 48, 53, 48, 54>>,
               <<50, 48, 50, 52, 48, 50, 50, 57, 50, 51, 53, 57, 53, 57, 57, 57>>,
               <<48, 48, 48, 49, 49, 50, 51, 49, 48, 48, 48, 48, 48, 48, 48, 48>> }

\* a static method returned or raised: r is [ok, dt]
Parsed(op, data, r) ==
    /\ last = NoCall
    /\ last' = Outcome(op, IF r.ok THEN "" ELSE "ValueError", TRUE, <<data>>,
                       IF r.ok THEN Some(r.dt) ELSE None)
    /\ loads' = <<>>
    /\ UNCHANGED <<img, file, pos, sector_size, system_area, volume_descriptors,
                   gens, gcm>>

CallParseDirectoryDatetime(data) ==
    Parsed("parse_directory_datetime", data, parse_directory_datetime(data))

CallParsePvdDatetime(data) ==
    Parsed("parse_pvd_datetime", data, parse_pvd_datetime(data))

\* parse_directory_record on the record of a file recorded at `stamp`
RecordParsed(data, r) ==
    /\ last = NoCall
    /\ last' = Outcome("parse_directory_record", r.err, TRUE, <<data>>,
                       IF r.err = "" THEN Some(r.out) ELSE None)
    /\ loads' = <<>>
    /\ UNCHANGED <<img, file, pos, sector_size, system_area, volume_descriptors,
                   gens, gcm>>

CallParseDirectoryRecord(stamp) ==
    RecordParsed(EncodeRecord([FileRec(NameA, 8, 5) EXCEPT !.stamp = stamp]),
                 parse_directory_record(
                     EncodeRecord([FileRec(NameA, 8, 5) EXCEPT !.stamp = stamp])))

\* one call of one parser on one input (the parsers keep no state)
CallTzOffsetToDatetimeStr(x) ==
    Parsed("tz_offset_to_datetime_str", x,
           [ok |-> TRUE, dt |-> tz_offset_to_datetime_str(x)])

NextTime ==
    \/ \E x \in TzBytes : CallTzOffsetToDatetimeStr(x)
    \/ \E s \in DirStamps, tz \in TzBytes : CallParseDirectoryDatetime(s \o <<tz>>)
    \/ \E s \in PvdStamps, tz \in TzBytes : CallParsePvdDatetime(s \o <<tz>>)
    \/ \E s \in DirStamps, tz \in TzBytes : CallParseDirectoryRecord(s \o <<tz>>)

\* the parsers read no image: one image stands for all
InitTime == Init /\ img = 1
SpecTime == InitTime /\ [][NextTime]_vars

-----------------------------------------------------------------------------
(* GcmFS (gcm.py).  The instance's fields are the record gcm:                *)
(*   made   "absent" (no GcmFS is made), "no" (before GcmFS(file)),          *)
(*          "yes" (constructed), "failed" (__init__ raised gcm.err)          *)
(*   boot_bin, bi2_bin, appldr_bin, fst_bin   None or the cached bytes       *)
(* An accessor takes x = [pos, g, loaded] (the cursor, the fields, the       *)
(* entities read so far in the step) and returns [x, err, ret].              *)

\* offsets and sizes of gcm.py
BOOT_BIN_SIZE == 1088          \* 0x0440
BI2_BIN_SIZE == 8192           \* 0x2000
APPLDR_OFFSET == 9280          \* 0x2440
APPLDR_SIZE_OFFSET == 9300     \* 0x2440 + 0x0014
FST_ENTRY_SIZE == 12           \* 0x0C

\* an FST entry: flags, filename (offset into the string table), offset, length
FstEntry(flags, filename, offset, length) ==
    <<flags, 0, 0, filename>> \o BE32(offset) \o BE32(length)

\* where the generated images keep the FST and the data of their two files
GcmFstAt == 9312               \* 0x2460
GcmDataAt == 9360              \* 0x2490

\* root {flags 1, length 3}, the files 'a' (3 bytes) and 'b' (2 bytes), the
\* string table 'a\0b\0'; `flags` are the flag bytes of the two children
GcmFst(flags) ==
    FstEntry(1, 0, 0, 3) \o FstEntry(flags[1], 0, GcmDataAt, 3)
    \o FstEntry(flags[2], 2, GcmDataAt + 4, 2) \o <<97, 0, 98, 0>>

\* a disc image: its length, the apploader size of its apploader header, and
\* the FST offset and size of its disk header
GcmDisc(len, appldr_size, fst, fst_size) ==
    [len |-> len,
     pieces |-> << [off |-> 0, bytes |-> <<71, 84, 83, 84>>],             \* game code
                   [off |-> 1060, bytes |-> BE32(GcmFstAt) \o BE32(fst_size)], \* 0x424
                   [off |-> APPLDR_SIZE_OFFSET, bytes |-> BE32(appldr_size)],
                   [off |-> GcmFstAt, bytes |-> fst],
                   [off |-> GcmDataAt, bytes |-> <<30, 31, 32, 0, 40, 41>>] >>]

\* the images a GcmFS is made over
GcmDescs ==
    << \* 1: a whole image: root and two files
       GcmDisc(GcmDataAt + 6, 32, GcmFst(<<0, 0>>), 40),
       \* 2: the second child has the flag byte 2
       GcmDisc(GcmDataAt + 6, 32, GcmFst(<<0, 2>>), 40),
       \* 3: the image ends inside the disk header
       GcmDisc(768, 32, GcmFst(<<0, 0>>), 40),
       \* 4: the image ends inside the disk header information
       GcmDisc(BOOT_BIN_SIZE + 100, 32, GcmFst(<<0, 0>>), 40),
       \* 5: the image ends 10 bytes into the FST, of which the header declares 40
       GcmDisc(GcmFstAt + 10, 32, GcmFst(<<0, 0>>), 40),
       \* 6: the apploader header declares 20480 bytes, more than the image has
       GcmDisc(GcmDataAt + 6, 20480, GcmFst(<<0, 0>>), 40) >>

NewGcm == [made |-> "no", err |-> "", boot_bin |-> None, bi2_bin |-> None,
           appldr_bin |-> None, fst_bin |-> None]

\* self.<name> = self.read_file(...): the outcome r of read_file is cached
cache_read(x, name, r) ==
    [x |-> [x EXCEPT !.pos = r.pos,
                     !.g = [x.g EXCEPT ![name] = Some(r.data)],
                     !.loaded = Append(@, name)],
     err |-> "", ret |-> r.data]

\* a faulty get_boot_bin: the disk header is read on every call
get_boot_bin_uncached(x) ==
    cache_read(x, "boot_bin", read_file(x.pos, 0, BOOT_BIN_SIZE, FALSE))

get_boot_bin(x) ==
    IF ~IsNone(x.g.boot_bin) THEN [x |-> x, err |-> "", ret |-> Val(x.g.boot_bin)]
    ELSE cache_read(x, "boot_bin", read_file(x.pos, 0, BOOT_BIN_SIZE, FALSE))

get_bi2_bin(x) ==
    IF ~IsNone(x.g.bi2_bin) THEN [x |-> x, err |-> "", ret |-> Val(x.g.bi2_bin)]
    ELSE cache_read(x, "bi2_bin", read_file(x.pos, BOOT_BIN_SIZE, BI2_BIN_SIZE, FALSE))

\* lines 95-96: from the outcome s of the read of the 4-byte size field
appldr_from(x, s) ==
    IF s.data.len < 4                                \* unpack('>I', ...)
    THEN [x |-> [x EXCEPT !.pos = s.pos, !.loaded = Append(@, "appldr_bin")],
          err |-> "struct.error", ret |-> EmptySpan]
    ELSE cache_read([x EXCEPT !.pos = s.pos], "appldr_bin",
                    read_file(s.pos, APPLDR_OFFSET, UnpackBE32(Bytes(s.data)), FALSE))

get_appldr_bin(x) ==
    IF ~IsNone(x.g.appldr_bin) THEN [x |-> x, err |-> "", ret |-> Val(x.g.appldr_bin)]
    ELSE appldr_from(x, read_file(x.pos, APPLDR_SIZE_OFFSET, 4, FALSE))

\* lines 121-150 of parse_boot_bin: from the outcome r of get_boot_bin; of
\* the dict the model keeps fst_offset and fst_size
boot_dict(r) ==
    IF r.ret.len < 10 THEN [x |-> r.x, err |-> "IndexError", ret |-> <<>>]
    ELSE IF r.ret.len < 1080 THEN [x |-> r.x, err |-> "struct.error", ret |-> <<>>]
    ELSE [x |-> r.x, err |-> "",
          ret |-> [fst_offset |-> UnpackBE32(Bytes(SpanSlice(r.ret, 1060, 1064))),
                   fst_size |-> UnpackBE32(Bytes(SpanSlice(r.ret, 1064, 1068)))]]

parse_boot_bin(x) == boot_dict(get_boot_bin(x))

\* line 107: from the outcome b of parse_boot_bin
fst_from(b) ==
    IF b.err /= "" THEN [x |-> b.x, err |-> b.err, ret |-> EmptySpan]
    ELSE cache_read(b.x, "fst_bin",
                    read_file(b.x.pos, b.ret.fst_offset, b.ret.fst_size, FALSE))

get_fst_bin(x) ==
    IF ~IsNone(x.g.fst_bin) THEN [x |-> x, err |-> "", ret |-> Val(x.g.fst_bin)]
    ELSE fst_from(parse_boot_bin(x))

\* GcmFS.parse_fst_entry: [err, out]
parse_fst_entry(data) ==
    IF Len(data) /= FST_ENTRY_SIZE THEN [err |-> "ValueError", out |-> <<>>]
    ELSE [err |-> "",
          out |-> [flags |-> At(data, 0), filename |-> PySlice(data, 1, 4),
                   offset |-> UnpackBE32(PySlice(data, 4, 8)),
                   length |-> UnpackBE32(PySlice(data, 8, 12))]]

\* lines 27-30 of __init__, each from the outcome of the call before
init_fst(a) == IF a.err /= "" THEN a ELSE get_fst_bin(a.x)
init_appldr(i) == init_fst(get_appldr_bin(i.x))
init_bi2(b) == init_appldr(get_bi2_bin(b.x))
gcm_init(x) == init_bi2(get_boot_bin(x))

\* lines 207-209 of __iter__: the string table is decoded, then the method
\* raises NotImplementedError("TODO")
iter_strings(f, root) ==
    IF root.err /= "" THEN [x |-> f.x, err |-> root.err, ret |-> <<>>]
    ELSE IF ~decode(Bytes(SpanSlice(f.ret, FST_ENTRY_SIZE * root.out.length,
                                    f.ret.len - 1))).ok
    THEN [x |-> f.x, err |-> "UnicodeDecodeError", ret |-> <<>>]
    ELSE [x |-> f.x, err |-> "NotImplementedError", ret |-> <<>>]

\* lines 205-206: from the outcome f of get_fst_bin
iter_fst(f) ==
    IF f.err /= "" THEN [x |-> f.x, err |-> f.err, ret |-> <<>>]
    ELSE iter_strings(f, parse_fst_entry(Bytes(SpanSlice(f.ret, 0, FST_ENTRY_SIZE))))

\* GcmFS.__iter__ (the method has no yield: iter(fs) runs it to its end)
gcm_iter(x) == iter_fst(get_fst_bin(x))

X == [pos |-> pos, g |-> gcm, loaded |-> <<>>]

InitGcm ==
    /\ img \in 1..Len(GcmDescs)
    /\ file = Layout(GcmDescs[img].len, GcmDescs[img].pieces)
    /\ pos \in StartPositions
    /\ sector_size = None
    /\ system_area = None
    /\ volume_descriptors = <<>>
    /\ gens = [g \in 1..MaxIters |-> NewGen]
    /\ last = NoCall
    /\ loads = <<>>
    /\ gcm = NewGcm

\* GcmFS(file) returned an instance or raised, with the outcome r of __init__
Constructed(r) ==
    /\ pos' = r.x.pos
    /\ loads' = r.x.loaded
    /\ gcm' = IF r.err = "" THEN [r.x.g EXCEPT !.made = "yes"]
              ELSE [NewGcm EXCEPT !.made = "failed", !.err = r.err]
    /\ last' = Outcome("__init__", r.err, r.x.pos = pos, <<>>, None)

Construct ==
    /\ gcm.made = "no"
    /\ Constructed(gcm_init(X))
    /\ UNCHANGED <<img, file, sector_size, system_area, volume_descriptors, gens>>

\* the method op of the instance returned or raised, with outcome r
GcmReturned(op, r) ==
    /\ pos' = r.x.pos
    /\ loads' = r.x.loaded
    /\ gcm' = r.x.g
    /\ last' = Outcome(op, r.err, r.x.pos = pos, <<>>,
                       IF r.err = "" THEN Some(r.ret) ELSE None)
    /\ UNCHANGED <<img, file, sector_size, system_area, volume_descriptors, gens>>

CallGetBootBin == gcm.made = "yes" /\ GcmReturned("get_boot_bin", get_boot_bin(X))
CallGetBi2Bin == gcm.made = "yes" /\ GcmReturned("get_bi2_bin", get_bi2_bin(X))
CallGetAppldrBin == gcm.made = "yes" /\ GcmReturned("get_appldr_bin", get_appldr_bin(X))
CallGetFstBin == gcm.made = "yes" /\ GcmReturned("get_fst_bin", get_fst_bin(X))
CallParseBootBin == gcm.made = "yes" /\ GcmReturned("parse_boot_bin", parse_boot_bin(X))
CallGcmIter == gcm.made = "yes" /\ GcmReturned("__iter__", gcm_iter(X))

\* a read_file of the client, which moves the cursor
GcmClientRead ==
    /\ gcm.made /= "absent"
    /\ \E offset \in {0, GcmDataAt} : CallReadFile(offset, 2, FALSE)

NextGcm ==
    \/ Construct
    \/ CallGetBootBin
    \/ CallGetBi2Bin
    \/ CallGetAppldrBin
    \/ CallGetFstBin
    \/ CallParseBootBin
    \/ CallGcmIter
    \/ GcmClientRead

SpecGcm == InitGcm /\ [][NextGcm]_vars

\* either decoder on an image of its format
InitAll == Init \/ InitGcm
NextAll == (gcm.made = "absent" /\ Next) \/ NextGcm
SpecAll == InitAll /\ [][NextAll]_vars

-----------------------------------------------------------------------------
(* Properties of iteration *)

Gens == 1..MaxIters

\* an entry as the client sees it: the payload as bytes
EntryView(e) ==
    [path |-> e.path, datetime |-> e.datetime,
     data |-> IF IsNone(e.data) THEN None ELSE Some(Bytes(Val(e.data)))]
Entries(g) == [k \in 1..Len(gens[g].out) |-> EntryView(gens[g].out[k])]

\* the path of the directory an entry is located in
ParentParts(e) == SubSeq(e.path.parts, 1, Len(e.path.parts) - 1)

\* C1: in every iteration, an entry whose record is located in the data of a
\* non-root directory comes after an entry for that directory whose payload
\* is None, and no entry has the empty path of the root directory.
C1_DirectoryBeforeContents ==
    \A g \in Gens :
        \A k \in 1..Len(gens[g].out) :
            LET e == gens[g].out[k]
            IN  /\ e.path /= RootPath
                /\ e.parent /= RootPath =>
                        \E j \in 1..(k - 1) :
                            /\ gens[g].out[j].path = e.parent
                            /\ IsNone(gens[g].out[j].data)

\* an iteration that ran to its end yielded D, D/G and the file D/G/B;1
C1_Witness ==
    \E g \in Gens :
        /\ gens[g].pc = "done"
        /\ \E k \in 1..Len(gens[g].out) :
               /\ gens[g].out[k].path.parts = <<NameD, NameG, NameB>>
               /\ ~IsNone(gens[g].out[k].data)

\* the directory record the frame g stands on (curr_data[ind:ind+next_len])
RecordAt(g) ==
    parse_directory_record(
        Bytes(SpanSlice(gens[g].curr_data, gens[g].ind,
                        gens[g].ind + gens[g].next_len))).out

\* C2: a file entry that was just yielded carries a payload as long as the
\* data length declared in the file's directory record.
C2_PayloadLength ==
    \A g \in Gens :
        gens[g].pc = "yield_file" =>
            Val(gens[g].out[Len(gens[g].out)].data).len = RecordAt(g).data_length_LE

\* C3: two iterations of the same decoder that both ran to their end, the
\* second started when no iteration was in progress, yielded the same
\* entries in the same order.
C3_SameEntriesTwice ==
    \A g \in Gens, h \in Gens :
        (/\ g < h
         /\ gens[g].pc = "done"
         /\ gens[h].pc = "done"
         /\ ~gens[h].overlap)
        => Entries(g) = Entries(h)

\* two iterations in a row that yielded several entries and started with
\* the cursor at different positions
C3_Witness ==
    /\ gens[1].pc = "done"
    /\ gens[2].pc = "done"
    /\ ~gens[2].overlap
    /\ Len(gens[1].out) > 1
    /\ Entries(1) = Entries(2)
    /\ gens[1].start_offset /= gens[2].start_offset

\* C4: the step that ends an iteration leaves the cursor at the position it
\* had at the step that began that iteration (kept in start_offset).
C4_CursorRestored ==
    [][\A g \in Gens :
          /\ (gens[g].pc = "new" /\ gens'[g].pc /= "new")
                => gens'[g].start_offset = pos
          /\ gens[g].pc /= "new" => gens'[g].start_offset = gens[g].start_offset
          /\ (gens[g].pc /= "done" /\ gens'[g].pc = "done")
                => pos' = gens'[g].start_offset]_vars

\* an iteration that began after the cursor was moved has just ended, and
\* the cursor is back where that iteration began
C4_Witness ==
    \E g \in Gens :
        /\ gens[g].pc = "done"
        /\ Len(gens[g].out) > 1
        /\ gens[g].start_offset = 2 * ImgSector + 2
        /\ pos = gens[g].start_offset
        /\ last = NoCall

-----------------------------------------------------------------------------
(* Properties of read_file *)

\* C5: a read_file(offset, length, ...) that returns returns exactly length
\* bytes (length >= 0).
C5_ExactLength ==
    (last.op = "read_file" /\ last.err = "" /\ last.args[2] >= 0)
        => Val(last.ret).len = last.args[2]

\* C6: read_file with return_to_init = True leaves the cursor where it was
\* before the call; with return_to_init = False, when it returns, the cursor
\* is just past the bytes read.
C6_CursorAfterRead ==
    last.op = "read_file" =>
        /\ last.args[3] => last.kept
        /\ (~last.args[3] /\ last.err = "")
              => pos = last.args[1] + Val(last.ret).len

\* a read of two bytes away from the cursor with return_to_init = True
C6_Witness ==
    /\ last.op = "read_file"
    /\ last.err = ""
    /\ last.args[3]
    /\ Val(last.ret).len = 2
    /\ pos /= last.args[1] + 2
    /\ last.kept

-----------------------------------------------------------------------------
(* Properties of the accessors *)

\* the image d has its descriptors at sector 16, a type-1 descriptor before
\* a type-255 one, and every extent inside the image
WellFormed(d) ==
    /\ d.vdAt = 16 * d.S
    /\ d.len >= d.vdAt + Len(d.vds) * d.S
    /\ \E k \in 1..Len(d.vds) :
           d.vds[k] = 255 /\ \E j \in 1..(k - 1) : d.vds[j] = 1
    /\ \A k \in 1..Len(d.dirs) :
           /\ d.dirs[k].lba * d.S + d.dirs[k].len <= d.len
           /\ \A j \in 1..Len(d.dirs[k].recs) :
                  d.dirs[k].recs[j].lba * d.S + d.dirs[k].recs[j].len <= d.len

\* C7: on a well-formed image get_sector_size returns a value s such that
\* the five bytes at offset 16*s+1 are 'CD001'.
C7_MagicAtSector16 ==
    (last.op = "get_sector_size" /\ WellFormed(Descs[img]))
        => /\ last.err = ""
           /\ MagicAt(16 * Val(last.ret) + 1)

\* 'CD001' does not occur within the first 50,000 bytes of the image
NoMagic ==
    \A i \in DOMAIN file.data :
        ~(/\ i + Len(ISO9660_PVD_MAGIC_WORD) <= MAGIC_WORD_SEARCH_SIZE
          /\ i + Len(ISO9660_PVD_MAGIC_WORD) <= file.len
          /\ MagicAt(i))

\* C8: when 'CD001' does not occur within the first 50,000 bytes,
\* get_sector_size raises ValueError and leaves the cursor where it was,
\* nothing is ever cached, and get_system_area, get_volume_descriptors and
\* iteration fail with the same error.
C8_NoMagicFails ==
    NoMagic =>
        /\ IsNone(sector_size)
        /\ IsNone(system_area)
        /\ volume_descriptors = <<>>
        /\ last.op = "get_sector_size" => (last.err = "ValueError" /\ last.kept)
        /\ last.op \in {"get_system_area", "get_volume_descriptors"}
              => last.err = "ValueError"
        /\ \A g \in Gens :
               gens[g].pc /= "new" =>
                   /\ gens[g].pc = "failed"
                   /\ gens[g].err = "ValueError"
                   /\ gens[g].out = <<>>

\* on the image whose only 'CD001' ends past byte 50,000, an iteration has
\* failed and get_sector_size has just raised
C8_Witness ==
    /\ NoMagic
    /\ file.len > MAGIC_WORD_SEARCH_SIZE
    /\ \E i \in DOMAIN file.data : MagicAt(i)
    /\ last.op = "get_sector_size"
    /\ last.err = "ValueError"
    /\ gens[1].pc = "failed"

\* the image d ends before any descriptor of type 255
EndsBeforeTerminator(d) ==
    /\ d.vdAt = 16 * d.S
    /\ d.vds /= <<>>
    /\ \A k \in 1..Len(d.vds) : d.vds[k] /= 255

\* C9: on an image that ends before any descriptor of type 255,
\* get_volume_descriptors raises: it never returns a chain.
C9_NoChainWithoutTerminator ==
    (EndsBeforeTerminator(Descs[img]) /\ last.op = "get_volume_descriptors")
        => last.err /= ""

\* C10: an iteration started while another one was suspended fails with
\* ReentrantIterationError and yields nothing.
C10_ReentrantIterationFails ==
    \A g \in Gens :
        (gens[g].overlap /\ gens[g].pc /= "new") =>
            /\ gens[g].pc = "failed"
            /\ gens[g].err = "ReentrantIterationError"
            /\ gens[g].out = <<>>

-----------------------------------------------------------------------------
(* Properties of the traversal *)

\* the directory extents of the image d: the root directory's and those the
\* directory records of its directories name
DirExtents(d) ==
    {d.root.lba} \cup
    UNION { {d.dirs[k].recs[j].lba :
                j \in {i \in 1..Len(d.dirs[k].recs) : d.dirs[k].recs[i].dir}} :
            k \in 1..Len(d.dirs) }

\* C11: iteration over a finite image is finite.  An entry found in a
\* directory whose path has n parts was found by scanning n + 1 directories,
\* one inside the other, the root first; in a traversal that ends these have
\* n + 1 different extents (a directory scanned again below itself is scanned
\* again without end), so no entry is found deeper than the image has
\* directory extents.
C11_IterationFinite ==
    \A g \in Gens :
        \A k \in 1..Len(gens[g].out) :
            Len(gens[g].out[k].parent.parts) + 1 <= Cardinality(DirExtents(Descs[img]))

\* the filenames '.' and '..' are recorded as: the byte 0 (the str '' once
\* cleaned) and the byte 1 (the str '\x01')
PseudoNames == {<<>>, <<1>>}

\* C12: the directory records named '.' and '..' are skipped: none is kept
\* to be visited, and none is the directory a marker was yielded for (and
\* whose extent is read next).  The root directory, which is never yielded,
\* is the only directory visited under such a name.
C12_PseudoEntriesSkipped ==
    \A g \in Gens :
        /\ \A k \in 1..Len(gens[g].to_visit) :
               \/ gens[g].to_visit[k].path = RootPath
               \/ /\ gens[g].to_visit[k].entry.filename.v \notin PseudoNames
                  /\ \A i \in 1..Len(gens[g].to_visit[k].path.parts) :
                         gens[g].to_visit[k].path.parts[i] \notin PseudoNames
        /\ gens[g].pc = "yield_dir" =>
               gens[g].curr_directory_entry.filename.v \notin PseudoNames
        /\ \A k \in 1..Len(gens[g].out) :
               \A i \in 1..Len(gens[g].out[k].path.parts) :
                   gens[g].out[k].path.parts[i] \notin PseudoNames

\* an iteration ran to its end, it yielded several entries, and the
\* directory it scanned last starts with the record '.'
C12_Witness ==
    \E g \in Gens :
        /\ gens[g].pc = "done"
        /\ Len(gens[g].out) > 1
        /\ gens[g].curr_data.len > 33
        /\ LET r == parse_directory_record(
                        Bytes(SpanSlice(gens[g].curr_data, 0,
                                        SpanAt(gens[g].curr_data, 0)))).out
           IN  r.file_flags.is_directory /\ r.filename.v = <<>>

\* the record of the directory data sp that starts at ind
RecordIn(sp, ind) ==
    parse_directory_record(Bytes(SpanSlice(sp, ind, ind + SpanAt(sp, ind))))

\* the subdirectory records of the directory data sp from ind on, in the
\* order they are recorded ('.' and '..' left out), up to the first length 0
RECURSIVE SubdirsFrom(_, _)
SubdirsWith(sp, ind, r) ==
    IF r.err /= "" THEN <<>>
    ELSE (IF r.out.file_flags.is_directory /\ r.out.filename.v \notin PseudoNames
          THEN <<r.out>> ELSE <<>>)
         \o SubdirsFrom(sp, ind + SpanAt(sp, ind))
SubdirsFrom(sp, ind) ==
    IF ind >= sp.len \/ SpanAt(sp, ind) = 0 THEN <<>>
    ELSE SubdirsWith(sp, ind, RecordIn(sp, ind))

\* where the first file record of sp at or after ind starts, -1 if none
RECURSIVE NextFileAt(_, _)
NextFileAt(sp, ind) ==
    IF ind + 33 > sp.len \/ SpanAt(sp, ind) < 33 THEN -1
    ELSE IF ~Bit(SpanAt(sp, ind + 25), 2) THEN ind       \* the directory flag
    ELSE NextFileAt(sp, ind + SpanAt(sp, ind))

\* where the scan of the frame f goes on when it is resumed
ScanFrom(f) == IF f.pc = "yield_file" THEN f.ind + f.next_len ELSE 0

\* the records kept in a to_visit list
EntriesOf(tv) == [k \in 1..Len(tv) |-> tv[k].entry]

\* next() took the frame from f to f2 and yielded a file: the first file
\* record after the last one yielded, of the same directory
FileOrder(f, f2) ==
    /\ f.pc = "yield_file" => f2.curr_data = f.curr_data
    /\ f2.curr_path = (IF f.pc = "new" THEN RootPath ELSE f.curr_path)
    /\ f2.ind = NextFileAt(f2.curr_data, ScanFrom(f))
    /\ f2.out[Len(f2.out)].parent = f2.curr_path
    /\ f2.to_visit = f.to_visit \o SubSeq(f2.to_visit, Len(f.to_visit) + 1, Len(f2.to_visit))

\* next() took the frame from f to f2 and yielded a directory marker: the
\* directory scanned has no file left, and the marker is for its last
\* subdirectory record, or, when it has none, for the last entry of to_visit
MarkerOrder(f, f2) ==
    LET subs == SubdirsFrom(f2.curr_data, 0)
        \* to_visit once the scan is over, before the marker's entry is taken
        seen == EntriesOf(f.to_visit) \o SubdirsFrom(f2.curr_data, ScanFrom(f))
    IN  /\ NextFileAt(f2.curr_data, ScanFrom(f)) = -1
        /\ f2.out[Len(f2.out)].path = f2.curr_path
        /\ IsNone(f2.out[Len(f2.out)].data)
        /\ IF subs /= <<>>
           THEN /\ f2.curr_directory_entry = subs[Len(subs)]
                /\ f2.out[Len(f2.out)].parent
                       = (IF f.pc = "new" THEN RootPath ELSE f.curr_path)
                /\ EntriesOf(f2.to_visit) = SubSeq(seen, 1, Len(seen) - 1)
           ELSE /\ f.to_visit /= <<>>
                /\ f2.curr_directory_entry = f.to_visit[Len(f.to_visit)].entry
                /\ f2.curr_path = f.to_visit[Len(f.to_visit)].path
                /\ f2.to_visit = SubSeq(f.to_visit, 1, Len(f.to_visit) - 1)

\* C13: the traversal is depth-first in stack order: the files of a
\* directory are yielded in the order of their records, all of them before
\* the next directory marker, and that marker is for the directory found
\* last among those not visited yet (the last subdirectory record of the
\* directory just scanned, if it has one).
C13_StackOrder ==
    [][\A g \in Gens :
          /\ (gens'[g] /= gens[g] /\ gens'[g].pc = "yield_file")
                => FileOrder(gens[g], gens'[g])
          /\ (gens'[g] /= gens[g] /\ gens'[g].pc = "yield_dir")
                => MarkerOrder(gens[g], gens'[g])]_vars

\* root: D/, A;1, E/; E: B;1, A;1; D: G/ was iterated to its end
C13_Witness ==
    \E g \in Gens :
        /\ gens[g].pc = "done"
        /\ [k \in 1..Len(gens[g].out) |-> gens[g].out[k].path.parts]
              = << <<NameA>>, <<NameE>>, <<NameE, NameB>>, <<NameE, NameA>>,
                   <<NameD>>, <<NameD, NameG>> >>

\* a record of the image d whose big-endian copy of the data location or of
\* the data length differs from the little-endian copy
HasMismatch(d) ==
    \E k \in 1..Len(d.dirs) :
        \E j \in 1..Len(d.dirs[k].recs) :
            \/ d.dirs[k].recs[j].lbaBE /= d.dirs[k].recs[j].lba
            \/ d.dirs[k].recs[j].lenBE /= d.dirs[k].recs[j].len

\* C14: a record whose big-endian copies differ from the little-endian ones
\* does not make the iteration fail, and every read is addressed by the
\* little-endian copies: the directory being scanned and the file just
\* yielded are the data_length_LE bytes at data_location_LE * sector_size.
C14_LittleEndianAddressing ==
    \A g \in Gens :
        /\ HasMismatch(Descs[img]) => gens[g].pc /= "failed"
        /\ gens[g].pc = "yield_file" =>
              /\ gens[g].curr_data =
                    FileRead(gens[g].curr_directory_entry.data_location_LE
                                 * Val(sector_size),
                             gens[g].curr_directory_entry.data_length_LE)
              /\ Val(gens[g].out[Len(gens[g].out)].data) =
                    FileRead(RecordAt(g).data_location_LE * Val(sector_size),
                             RecordAt(g).data_length_LE)

\* the image whose records A;1 and D disagree with their big-endian copies
\* was iterated to its end: A;1 (5 bytes of sector 8), D, D/B;1
C14_Witness ==
    \E g \in Gens :
        /\ HasMismatch(Descs[img])
        /\ gens[g].pc = "done"
        /\ [k \in 1..Len(gens[g].out) |->
               <<Entries(g)[k].path.parts, Entries(g)[k].data>>]
              = << <<<<NameA>>, Some(<<10, 11, 12, 13, 14>>)>>,
                   <<<<NameD>>, None>>,
                   <<<<NameD, NameB>>, Some(<<20, 21, 22>>)>> >>

-----------------------------------------------------------------------------
(* Properties of the date and time parsers *)

\* month, day, hour, minute and second of a directory record's date and
\* time are those of a real date and time
ValidDirStamp(data) ==
    /\ data[2] \in 1..12
    /\ data[3] \in 1..DaysIn(data[1] + 1900, data[2])
    /\ data[4] \in 0..23
    /\ data[5] \in 0..59
    /\ data[6] \in 0..59

\* the offset byte x stands for (x - 48) quarters of an hour from UTC; a
\* datetime takes an offset of less than 24 hours
ValidOffset(x) == (x - 48) * 15 > -1440 /\ (x - 48) * 15 < 1440

\* C15: parse_directory_datetime and parse_pvd_datetime return a datetime
\* for every value of the offset byte: one with the offset as its timezone
\* when the offset is valid, one without timezone when it is not; and
\* parse_directory_record returns the record with the datetime parsed.
C15_EveryOffsetParses ==
    /\ last.op \in {"parse_directory_datetime", "parse_pvd_datetime"} =>
          /\ last.err = ""
          /\ LET x == last.args[1][Len(last.args[1])]
             IN  Val(last.ret).tzinfo =
                    (IF ValidOffset(x) THEN Some((x - 48) * 15) ELSE None)
    /\ last.op = "parse_directory_record" =>
          /\ last.err = ""
          /\ Val(last.ret).datetime.parsed

\* a directory record's date and time with the offset byte 255 was parsed
\* without timezone
C15_Witness ==
    /\ last.op = "parse_directory_datetime"
    /\ ValidDirStamp(last.args[1])
    /\ last.args[1][7] = 255
    /\ last.err = ""
    /\ IsNone(Val(last.ret).tzinfo)

-----------------------------------------------------------------------------
(* Properties of the Primary Volume Descriptor *)

\* C16: parse_primary_volume_descriptor, given a descriptor chain that
\* loaded up to its terminator and holds a Primary Volume Descriptor, raises
\* only when the root directory record (bytes 156..189 of the PVD) cannot be
\* parsed.
C16_OnlyRootRecordIsFatal ==
    (/\ last.op = "parse_primary_volume_descriptor"
     /\ last.err /= ""
     /\ {1, 255} \subseteq DOMAIN volume_descriptors)
    => parse_directory_record(
           Bytes(SpanSlice(volume_descriptors[1], 156, 190))).err /= ""

-----------------------------------------------------------------------------
(* Properties of the caches *)

\* the cached entities of a GcmFS
GcmEntities == {"boot_bin", "bi2_bin", "appldr_bin", "fst_bin"}
\* the accessor of each entity
GcmAccessor ==
    [boot_bin |-> "get_boot_bin", bi2_bin |-> "get_bi2_bin",
     appldr_bin |-> "get_appldr_bin", fst_bin |-> "get_fst_bin"]

\* how often the entity was read from the file in a step that read `loaded`
TimesRead(loaded, name) == Cardinality({i \in DOMAIN loaded : loaded[i] = name})

\* C17: no step of a decoder (an accessor, a parser, a resumption of an
\* iteration, a construction) reads an entity from the file more than once,
\* and once an entity is cached (the sector size, the system area, a
\* descriptor chain loaded up to its terminator, boot.bin, bi2.bin,
\* appldr.bin, fst.bin) no step reads it again or changes it, and its accessor
\* returns the cached value.
C17_ReadAtMostOnce ==
    [][/\ \A name \in GcmEntities \union
                      {"sector_size", "system_area", "volume_descriptors"} :
              TimesRead(loads', name) <= 1
       /\ ~IsNone(sector_size) =>
              /\ sector_size' = sector_size
              /\ TimesRead(loads', "sector_size") = 0
              /\ (last'.op = "get_sector_size" => last'.ret = Some(Val(sector_size)))
       /\ ~IsNone(system_area) =>
              /\ system_area' = system_area
              /\ TimesRead(loads', "system_area") = 0
              /\ (last'.op = "get_system_area" => last'.ret = Some(Val(system_area)))
       /\ 255 \in DOMAIN volume_descriptors =>
              /\ volume_descriptors' = volume_descriptors
              /\ TimesRead(loads', "volume_descriptors") = 0
              /\ (last'.op = "get_volume_descriptors"
                     => last'.ret = Some(volume_descriptors))
       /\ \A name \in GcmEntities :
              (gcm.made /= "absent" /\ ~IsNone(gcm[name])) =>
                 /\ gcm'[name] = gcm[name]
                 /\ TimesRead(loads', name) = 0
                 /\ (last'.op = GcmAccessor[name]
                        => last'.ret = Some(Val(gcm[name])))]_vars

\* get_fst_bin of a constructed GcmFS returned the cached FST of 40 bytes
\* without a read
C17_Witness ==
    /\ gcm.made = "yes"
    /\ last.op = "get_fst_bin"
    /\ last.err = ""
    /\ loads = <<>>
    /\ last.ret = Some(Val(gcm.fst_bin))
    /\ Val(gcm.fst_bin).len = 40

-----------------------------------------------------------------------------
(* Properties of GcmFS *)

\* the apploader size and the FST offset and size that the image's headers
\* declare (0 where the image ends before the field)
DeclaredSize(at) ==
    IF at + 4 <= file.len THEN UnpackBE32(Bytes([off |-> at, len |-> 4])) ELSE 0

\* C18: a GcmFS is constructed only over an image that supplies the whole
\* 0x440-byte disk header, the whole 0x2000-byte disk header information, and
\* the apploader and the FST of the sizes their headers declare, and the
\* instance then holds exactly these bytes.
C18_NoInstanceOverShortImage ==
    gcm.made = "yes" =>
       /\ Val(gcm.boot_bin).len = BOOT_BIN_SIZE
       /\ Val(gcm.bi2_bin).len = BI2_BIN_SIZE
       /\ Val(gcm.appldr_bin).len = DeclaredSize(APPLDR_SIZE_OFFSET)
       /\ APPLDR_OFFSET + DeclaredSize(APPLDR_SIZE_OFFSET) <= file.len
       /\ Val(gcm.fst_bin).len = DeclaredSize(1064)
       /\ DeclaredSize(1060) + DeclaredSize(1064) <= file.len

\* the number of entries the root entry of the cached FST declares
NumEntries == parse_fst_entry(Bytes(SpanSlice(Val(gcm.fst_bin), 0, FST_ENTRY_SIZE))).out.length
\* the flag byte of entry i of the cached FST
FlagOf(i) == At(Bytes(SpanSlice(Val(gcm.fst_bin), FST_ENTRY_SIZE * i, FST_ENTRY_SIZE * i + 1)), 0)
\* the cached FST holds all the entries its root declares
WholeFst ==
    /\ gcm.made = "yes"
    /\ Val(gcm.fst_bin).len >= FST_ENTRY_SIZE
    /\ Val(gcm.fst_bin).len >= FST_ENTRY_SIZE * NumEntries

\* C19: over an FST whose entries all have the flag 0 or 1, iteration returns
\* without an error and yields one entry for each index 1..num_entries-1 (two
\* entries for a root {flag 1, length 3} with two files).
C19_OneEntryPerIndex ==
    (/\ last.op = "__iter__"
     /\ WholeFst
     /\ \A i \in 0..(NumEntries - 1) : FlagOf(i) \in {0, 1})
    => /\ last.err = ""
       /\ Len(Val(last.ret)) = NumEntries - 1

\* C20: over an FST with an entry whose flag is neither 0 nor 1, iteration
\* raises the decoder's format error (ValueError, as parse_fst_entry raises
\* for a malformed entry).
C20_BadFlagIsFormatError ==
    (/\ last.op = "__iter__"
     /\ WholeFst
     /\ \E i \in 0..(NumEntries - 1) : FlagOf(i) \notin {0, 1})
    => last.err = "ValueError"

-----------------------------------------------------------------------------
(* Properties of an abandoned iteration *)

RECURSIVE Drain(_)
\* list(it): the frame is resumed until it returns or raises (or has yielded
\* MaxYields entries)
Drain(m) ==
    IF m.g.pc \in {"done", "failed"} \/ Len(m.g.out) >= MaxYields THEN m
    ELSE Drain(resume(m))

\* a complete iteration of a new IsoFS over the file, handed over at cursor p
FreshRun(p) ==
    Drain([fs |-> [pos |-> p, sector_size |-> None, system_area |-> None,
                   volume_descriptors |-> <<>>, loaded |-> <<>>],
           g |-> NewGen]).g
OutView(out) == [k \in 1..Len(out) |-> EntryView(out[k])]

\* C21: while an iteration stands abandoned at one of its yields, a later
\* iteration of the same decoder that ran to its end yielded the entries that
\* a complete iteration of a new decoder over the same image yields, wherever
\* the cursor was left.
C21_ReusableAfterAbandon ==
    \A g \in Gens, h \in Gens, p \in StartPositions :
        (/\ g < h
         /\ Suspended(g)
         /\ gens[h].pc = "done"
         /\ FreshRun(p).pc = "done")
        => Entries(h) = OutView(FreshRun(p).out)

\* the first iteration was abandoned after one entry with the cursor behind
\* that file's data, and the second then yielded all five entries of the tree
C21_Witness ==
    /\ gens[1].pc = "yield_file"
    /\ Len(gens[1].out) = 1
    /\ gens[2].pc = "done"
    /\ gens[2].overlap
    /\ gens[2].start_offset /= gens[1].start_offset
    /\ Len(gens[2].out) >= 5
    /\ Entries(2) = OutView(FreshRun(gens[1].start_offset).out)

-----------------------------------------------------------------------------
(* The extraction of scripts/contents.py: the consumer of an iteration.  The *)
(* output directory is t = [dirs, files, err]: the directories and files    *)
(* made so far, as paths relative to it (sequences of names), and the       *)
(* exception that ended the extraction.                                     *)

\* lines 67-69: the path an entry is written to, relative to the output
\* directory: a final ';' and digit are cut off a name of more than 2 characters
out_path(parts) ==
    LET name == parts[Len(parts)]
        n == Len(name)
    IN  IF n > 2 /\ name[n - 1] = 59 /\ name[n] \in 48..57
        THEN SubSeq(parts, 1, Len(parts) - 1) \o <<SubSeq(name, 1, n - 2)>>
        ELSE parts

\* lines 71-75: out_path.mkdir() for a directory marker, open(out_path, 'wb')
\* and write for a file
extract_entry(t, is_dir, p) ==
    IF SubSeq(p, 1, Len(p) - 1) \in t.files THEN [t EXCEPT !.err = "NotADirectoryError"]
    ELSE IF SubSeq(p, 1, Len(p) - 1) \notin t.dirs
    THEN [t EXCEPT !.err = "FileNotFoundError"]
    ELSE IF is_dir
    THEN IF p \in t.dirs \union t.files THEN [t EXCEPT !.err = "FileExistsError"]
         ELSE [t EXCEPT !.dirs = @ \union {p}]
    ELSE IF p \in t.dirs THEN [t EXCEPT !.err = "IsADirectoryError"]
         ELSE [t EXCEPT !.files = @ \union {p}]

RECURSIVE extract(_, _, _)
\* lines 57-75: the output directory is made, then the entries of out from
\* the k-th on are extracted in order until one raises
extract(out, k, t) ==
    IF k > Len(out) \/ t.err /= "" THEN t
    ELSE extract(out, k + 1,
                 extract_entry(t, IsNone(out[k].data), out_path(out[k].path.parts)))

\* C22: in every iteration an entry whose path has more than one part comes
\* after the directory marker whose path is the entry's path without its last
\* part, and the extraction of the entries yielded so far (mkdir for a marker,
\* open and write for a file, in iteration order) never fails for a missing
\* parent directory.
C22_ParentMadeFirst ==
    \A g \in Gens :
        /\ \A k \in 1..Len(gens[g].out) :
              Len(gens[g].out[k].path.parts) > 1 =>
                  \E j \in 1..(k - 1) :
                      /\ gens[g].out[j].path.parts = ParentParts(gens[g].out[k])
                      /\ IsNone(gens[g].out[j].data)
        /\ extract(gens[g].out, 1, [dirs |-> {<<>>}, files |-> {}, err |-> ""]).err
               /= "FileNotFoundError"

-----------------------------------------------------------------------------
(* Properties of the scan of a directory *)

RECURSIVE ScanEnd(_, _)
\* where the records of the directory data sp, taken one after the other
\* from ind on, end: at the first length byte 0, or at or behind the end of sp
ScanEnd(sp, ind) ==
    IF ind >= sp.len \/ SpanAt(sp, ind) = 0 THEN ind
    ELSE ScanEnd(sp, ind + SpanAt(sp, ind))

\* C23: the scan of a directory's data ends without an error.  A file is
\* yielded only from a record located before the first length byte 0, and a
\* frame whose directory data is filled by its records exactly, with no
\* length byte 0, does not fail at the end of the data.
C23_ScanEndsWithoutError ==
    \A g \in Gens :
        /\ gens[g].pc = "yield_file"
              => gens[g].ind < ScanEnd(gens[g].curr_data, 0)
        /\ (/\ gens[g].curr_directory_entry /= <<>>
            /\ gens[g].curr_data.len > 0
            /\ gens[g].curr_data.len = gens[g].curr_directory_entry.data_length_LE
            /\ ScanEnd(gens[g].curr_data, 0) = gens[g].curr_data.len)
           => ~(gens[g].pc = "failed" /\ gens[g].ind = gens[g].curr_data.len)

-----------------------------------------------------------------------------
(* Properties of the entries of a tree *)

\* the directory records of the description d other than '.' and '..'
SubdirRecords(d) ==
    {<<k, j>> \in (1..Len(d.dirs)) \X (1..5) :
        /\ j <= Len(d.dirs[k].recs)
        /\ d.dirs[k].recs[j].dir
        /\ d.dirs[k].recs[j].name \notin {<<0>>, <<1>>}}

\* the directory extents of d form a tree: no two directory records name
\* the same extent, and none names the root's
IsTree(d) ==
    /\ \A r \in SubdirRecords(d) : d.dirs[r[1]].recs[r[2]].lba /= d.root.lba
    /\ \A r, q \in SubdirRecords(d) :
          r /= q => d.dirs[r[1]].recs[r[2]].lba /= d.dirs[q[1]].recs[q[2]].lba

RECURSIVE Stored(_, _, _, _, _)
\* the records stored in the directory data sp from ind on, and in the data
\* of the directories they name (at most depth levels down), as the entries
\* they stand for: a record ends in the sector of S bytes it begins in, and
\* zeros fill the rest of a sector behind its last record
Stored(path, sp, ind, S, depth) ==
    IF ind >= sp.len \/ depth = 0 THEN <<>>
    ELSE IF SpanAt(sp, ind) = 0
    THEN Stored(path, sp, ((ind \div S) + 1) * S, S, depth)
    ELSE LET r == RecordIn(sp, ind).out
             sub == PathJoin(path, r.filename.v)
         IN  (IF ~r.file_flags.is_directory
              THEN <<[path |-> sub, dir |-> FALSE]>>
              ELSE IF r.filename.v \in PseudoNames THEN <<>>
              ELSE <<[path |-> sub, dir |-> TRUE]>>
                   \o Stored(sub, FileRead(r.data_location_LE * S, r.data_length_LE),
                             0, S, depth - 1))
             \o Stored(path, sp, ind + SpanAt(sp, ind), S, depth)

\* the entries that stand for the records of the image's tree
StoredEntries ==
    Stored(RootPath,
           FileRead(Descs[img].root.lba * Descs[img].S, Descs[img].root.len),
           0, Descs[img].S, Len(Descs[img].dirs) + 1)

\* C24: over an image whose directory extents form a tree, no iteration
\* yields an entry twice, and an iteration that ran to its end yielded one
\* entry for each file record and one marker for each directory record other
\* than '.' and '..' stored in the data of the root or of a directory reached
\* from it, each under its directory's path joined with the record's filename.
C24_OneEntryPerRecord ==
    \A g \in Gens :
        IsTree(Descs[img]) =>
            /\ \A j, k \in 1..Len(gens[g].out) :
                  j /= k => gens[g].out[j].path /= gens[g].out[k].path
            /\ gens[g].pc = "done" =>
                  {[path |-> gens[g].out[k].path, dir |-> IsNone(gens[g].out[k].data)] :
                       k \in 1..Len(gens[g].out)}
                  = {StoredEntries[k] : k \in 1..Len(StoredEntries)}

-----------------------------------------------------------------------------
(* Properties of a failed load *)

\* C25: a get_volume_descriptors that raised left the descriptor cache empty
\* and the cursor where it was before the call, and a get_volume_descriptors
\* that returned returned a chain that holds the terminator (type 255).
C25_FailedLoadLeavesNothing ==
    last.op = "get_volume_descriptors" =>
        /\ last.err /= "" => (volume_descriptors = <<>> /\ last.kept)
        /\ last.err = "" => 255 \in DOMAIN Val(last.ret)

-----------------------------------------------------------------------------
(* Properties of the timezone offset *)

\* C26: for every offset byte x, tz_offset_to_datetime_str(x) is the sign of
\* 15 * x - 720 minutes ('-' below 0, else '+'), then the whole hours and the
\* minutes of its absolute value, two digits each; the minutes are 00, 15, 30
\* or 45.
C26_TimezoneString ==
    last.op = "tz_offset_to_datetime_str" =>
        LET minutes == 15 * last.args[1] - 720
            am == IF minutes < 0 THEN -minutes ELSE minutes
        IN  /\ am % 60 \in {0, 15, 30, 45}
            /\ Val(last.ret) =
                  << (IF minutes < 0 THEN 45 ELSE 43),
                     48 + ((am \div 60) \div 10), 48 + ((am \div 60) % 10),
                     48 + ((am % 60) \div 10), 48 + ((am % 60) % 10) >>

\* the offset byte 47, a quarter of an hour west of UTC, gave '-0015'
C26_Witness ==
    /\ last.op = "tz_offset_to_datetime_str"
    /\ last.args[1] = 47
    /\ Val(last.ret) = <<45, 48, 48, 49, 53>>

-----------------------------------------------------------------------------
(* Properties of the sector size *)

\* C27: the sector size that get_sector_size returns, and the one the decoder
\* holds, is a positive integer s such that 16 * s + 1 is the offset of the
\* first 'CD001' within the first 50,000 bytes of the image.
C27_SectorSizeExact ==
    /\ (last.op = "get_sector_size" /\ last.err = "") =>
          /\ Val(last.ret) > 0
          /\ 16 * Val(last.ret) + 1 = find(FileRead(0, MAGIC_WORD_SEARCH_SIZE))
    /\ ~IsNone(sector_size) =>
          /\ Val(sector_size) > 0
          /\ 16 * Val(sector_size) + 1 = find(FileRead(0, MAGIC_WORD_SEARCH_SIZE))

-----------------------------------------------------------------------------
(* Properties of the accessors' cursor *)

\* C28: get_sector_size, get_system_area and get_volume_descriptors, when
\* they return, leave the cursor where it was before the call, whether they
\* read the image or answer from the cache; and an iteration that ran to its
\* end, with such calls between its pulls, yielded the entries that a
\* complete iteration of a new decoder yields without them.
C28_AccessorsKeepCursor ==
    /\ (/\ last.op \in {"get_sector_size", "get_system_area", "get_volume_descriptors"}
        /\ last.err = "")
       => last.kept
    /\ \A g \in Gens, p \in StartPositions :
          (gens[g].pc = "done" /\ FreshRun(p).pc = "done")
          => Entries(g) = OutView(FreshRun(p).out)

\* between two pulls of an iteration, with the cursor behind the data of the
\* file just yielded, get_system_area read the system area from the image and
\* left the cursor there
C28_Witness ==
    /\ last.op = "get_system_area"
    /\ last.err = ""
    /\ loads = <<"system_area">>
    /\ gens[1].pc = "yield_file"
    /\ pos = Val(gens[1].out[Len(gens[1].out)].data).off
             + Val(gens[1].out[Len(gens[1].out)].data).len
    /\ pos /= Val(system_area).len

====
